---- MODULE Spec2Model ----
(***************************************************************************)
(* Model of the server-side event pipeline of the multi-platform tracking  *)
(* SDK: MetaConversionTracker (src/src/MetaConversionTracker.ts) and the   *)
(* helpers it uses from utils (src/unnamed/part_004): validation, the      *)
(* event builder, the user-data normaliser, the transport with its two     *)
(* paths, and the retry loop; and of the browser side: MetaPixelTracker and *)
(* HybridTracker (src/src/index.ts) and GTMTracker (src/src/GTMTracker.ts) *)
(* on one page.                                                            *)
(*                                                                         *)
(* Representation of JavaScript values                                     *)
(*   - an object is a record; a property that is undefined is a key that   *)
(*     is not in the DOMAIN of the record;                                 *)
(*   - a string that the code inspects character by character (e-mail,     *)
(*     phone, pixel id, access token) is a sequence of one-character       *)
(*     strings; enumerated or opaque strings are TLA+ strings;             *)
(*   - a user-data string is a "text": [s |-> characters, hs |-> digests   *)
(*     applied so far]; a digest is never inverted or computed, so a text  *)
(*     is the symbolic term  hs[n](...hs[1](s))  under a collision-free    *)
(*     hash;                                                               *)
(*   - a pending Promise is [promise |-> value it resolves to].            *)
(***************************************************************************)
EXTENDS Integers, Sequences, FiniteSets, TLC

VARIABLES
    env,          \* host environment: [node, hasFetch]
    config,       \* this.config
    baseUrl,      \* this.baseUrl
    cfgError,     \* outcome of the last constructor/updateConfig call
    updates,      \* number of updateConfig calls made (bounded)
    pc,           \* position of the send call
    call,         \* the call in progress: [kind, input, now]
    serverEvents, \* the value handed to makeRequest (built once per call)
    i,            \* retry: loop index
    attempts,     \* number of invocations of fn made by retry
    lastError,    \* retry: lastError
    reqBody,      \* makeRequest: requestOptions.body of the attempt in progress
    log,          \* outbound network requests issued by the call, in order
    backoffDelay, \* retry: the wait computed after the last failed attempt
    result,       \* settled value of the call
    started,      \* config and baseUrl as they were when the call started
    fnOutcomes,   \* observer: whether each invocation of fn succeeded
    fnLast,       \* observer: what the last invocation of fn settled with
    lastReply,    \* observer: the remote reply to the last attempt, if any
    dom,          \* document: number of elements inserted under each id
    docBody,      \* document: whether document.body exists yet
    fbq,          \* window.fbq: "undefined", "function" or "object"
    dataLayer,    \* window.dataLayer: [defined, events]
    pixel,        \* the MetaPixelTracker instances the page holds
    gtm,          \* the GTMTracker instances the page holds
    hybrid,       \* the HybridTracker instance the page holds
    hcall,        \* the HybridTracker track call in progress
    fbqCalls,     \* the calls of window.fbq made by the last operation
    thrown        \* the error code the last operation threw, "none" if none

browserVars == <<dom, docBody, fbq, dataLayer, pixel, gtm, hybrid, hcall,
                 fbqCalls, thrown>>

serverVars == <<env, config, baseUrl, cfgError, updates, pc, call,
                serverEvents, i, attempts, lastError, reqBody, log,
                backoffDelay, result, started, fnOutcomes, fnLast, lastReply>>

vars == <<serverVars, browserVars>>

(***************************************************************************)
(* Bounds of the model                                                     *)
(***************************************************************************)
MaxBatchLen == 2      \* longest enumerated batch (besides the 1000/1001 ones)
MaxTrackers == 2      \* instances of each tracker class on one page
MaxDataLayer == 2     \* longest window.dataLayer a track call is made on
MaxUpdates == 1       \* updateConfig calls explored per behaviour

(***************************************************************************)
(* Characters and strings                                                  *)
(***************************************************************************)
Rep(c, n) == [k \in 1..n |-> c]

Digits == {"0", "1", "2", "3", "4", "5", "6", "7", "8", "9"}

\* String.prototype.toLowerCase, on the letters the model uses
LowerChar(c) ==
    CASE c = "A" -> "a"
      [] c = "B" -> "b"
      [] c = "C" -> "c"
      [] OTHER -> c

toLowerCase(s) == [k \in 1..Len(s) |-> LowerChar(s[k])]

RECURSIVE trimStart(_)
trimStart(s) == IF s # <<>> /\ Head(s) = " " THEN trimStart(Tail(s)) ELSE s

RECURSIVE trimEnd(_)
trimEnd(s) ==
    IF s # <<>> /\ s[Len(s)] = " " THEN trimEnd(SubSeq(s, 1, Len(s) - 1)) ELSE s

\* String.prototype.trim
trim(s) == trimEnd(trimStart(s))

\* phone.replace(/\D/g, '')
stripNonDigits(s) == SelectSeq(s, LAMBDA c : c \in Digits)

Text(s) == [s |-> s, hs |-> <<>>]

\* JavaScript truthiness of a string value
TruthyText(t) == t.hs # <<>> \/ t.s # <<>>

Truthy(r, k) == k \in DOMAIN r /\ TruthyText(r[k])

TruthyStr(r, k) == k \in DOMAIN r /\ r[k] # ""

TruthyNum(r, k) == k \in DOMAIN r /\ r[k] # 0

\* a hex digest is lower-case and has no blanks: normalising it changes nothing
normalizeText(t) == IF t.hs = <<>> THEN Text(trim(toLowerCase(t.s))) ELSE t

Digest(alg, t) == [s |-> t.s, hs |-> Append(t.hs, alg)]

EmptyText == Text(<<>>)

(***************************************************************************)
(* Objects                                                                 *)
(***************************************************************************)
EmptyObj == [k \in {} |-> TRUE]

\* object spread { ...a, ...b }
Spread(a, b) ==
    [k \in DOMAIN a \cup DOMAIN b |-> IF k \in DOMAIN b THEN b[k] ELSE a[k]]

\* { [k]: v } when cond holds, nothing otherwise:  ...(cond && { k: v })
Prop(cond, k, v) == IF cond THEN [x \in {k} |-> v] ELSE EmptyObj

(***************************************************************************)
(* utils: hashing and user-data normalisation                              *)
(***************************************************************************)
\* utils.hashDataSync: SHA-256 under Node, the 32-bit checksum elsewhere
hashDataSync(data, e) ==
    IF ~TruthyText(data) THEN EmptyText
    ELSE Digest(IF e.node THEN "sha256" ELSE "simple", normalizeText(data))

\* utils.hashData is async: the caller receives a Promise, whatever the input
hashData(data, e) ==
    [promise |-> IF ~TruthyText(data) THEN EmptyText
                 ELSE Digest("sha256", normalizeText(data))]

NormalizedFields ==
    {"email", "firstName", "lastName", "externalId", "zipCode", "city",
     "state", "country"}

\* utils.normalizeUserData: a copy of userData with the listed fields digested
normalizeUserData(userData, e) ==
    [f \in DOMAIN userData |->
        IF ~TruthyText(userData[f]) THEN userData[f]
        ELSE IF f = "phone"
            THEN hashDataSync(Text(stripNonDigits(userData[f].s)), e)
        ELSE IF f \in {"state", "country"}
            THEN hashDataSync(Text(toLowerCase(userData[f].s)), e)
        ELSE IF f \in NormalizedFields THEN hashDataSync(userData[f], e)
        ELSE userData[f]]

\* a normalisation that assigns the digests to its argument
normalizeUserDataInPlace(userData, e) ==
    [argument |-> normalizeUserData(userData, e),
     returned |-> normalizeUserData(userData, e),
     returnedIs |-> "argument"]

\* utils.normalizeUserData on the heap: line 120 spreads userData into a new
\* object and every assignment goes to that object
normalizeUserDataHeap(userData, e) ==
    [argument |-> userData,
     returned |-> normalizeUserData(userData, e),
     returnedIs |-> "copy"]

\* createUserData: <<input field, wire key, passed through hashData>>
UserDataFields ==
    {<<"email", "em", TRUE>>, <<"phone", "ph", TRUE>>,
     <<"firstName", "fn", TRUE>>, <<"lastName", "ln", TRUE>>,
     <<"dateOfBirth", "db", TRUE>>, <<"gender", "ge", TRUE>>,
     <<"city", "ct", TRUE>>, <<"state", "st", TRUE>>,
     <<"country", "country", TRUE>>, <<"zipCode", "zp", TRUE>>,
     <<"f5first", "f5first", TRUE>>, <<"f5last", "f5last", TRUE>>,
     <<"fi", "fi", TRUE>>, <<"dobd", "dobd", TRUE>>,
     <<"dobm", "dobm", TRUE>>, <<"doby", "doby", TRUE>>,
     <<"externalId", "external_id", FALSE>>,
     <<"clientIpAddress", "client_ip_address", FALSE>>,
     <<"clientUserAgent", "client_user_agent", FALSE>>,
     <<"fbc", "fbc", FALSE>>, <<"fbp", "fbp", FALSE>>,
     <<"subscriptionId", "subscription_id", FALSE>>,
     <<"fbLoginId", "fb_login_id", FALSE>>,
     <<"leadId", "lead_id", FALSE>>}

\* the value createUserData stores under a wire key
UserDataValue(v, hashed, e) == IF hashed THEN hashData(v, e) ELSE v

\* MetaConversionTracker.createUserData
createUserData(userData, e) ==
    LET normalizedData == normalizeUserData(userData, e)
        present == {m \in UserDataFields : Truthy(normalizedData, m[1])}
    IN  [w \in {m[2] : m \in present} |->
            LET m == CHOOSE m \in present : m[2] = w
            IN  UserDataValue(normalizedData[m[1]], m[3], e)]

(***************************************************************************)
(* Custom data                                                             *)
(***************************************************************************)
\* createCustomData: string fields copied when truthy, <<input, wire key>>
CustomStringFields ==
    {<<"currency", "currency">>, <<"contentName", "content_name">>,
     <<"contentCategory", "content_category">>,
     <<"contentType", "content_type">>, <<"orderId", "order_id">>,
     <<"searchString", "search_string">>, <<"status", "status">>,
     <<"deliveryCategory", "delivery_category">>}

\* a reserved list that lacks "value"
reservedFieldsWithoutValue ==
    {"currency", "content_name", "content_category", "content_ids",
     "content_type", "order_id", "search_string", "num_items", "status",
     "delivery_category", "contents"}

\* createCustomData: the keys customProperties may not set (lines 323-336)
reservedFields ==
    {"value", "currency", "content_name", "content_category", "content_ids",
     "content_type", "order_id", "search_string", "num_items", "status",
     "delivery_category", "contents"}

\* one element of customData.contents
createContent(content) ==
    Spread([id |-> content.id,
            quantity |-> IF TruthyNum(content, "quantity")
                         THEN content.quantity ELSE 1],
      Spread(Prop("itemPrice" \in DOMAIN content, "item_price",
                  IF "itemPrice" \in DOMAIN content THEN content.itemPrice ELSE 0),
      Spread(Prop(TruthyStr(content, "title"), "title",
                  IF "title" \in DOMAIN content THEN content.title ELSE ""),
      Spread(Prop(TruthyStr(content, "category"), "category",
                  IF "category" \in DOMAIN content THEN content.category ELSE ""),
             Prop(TruthyStr(content, "brand"), "brand",
                  IF "brand" \in DOMAIN content THEN content.brand ELSE "")))))

\* MetaConversionTracker.createCustomData
createCustomData(customData) ==
    LET strs == {m \in CustomStringFields : TruthyStr(customData, m[1])}
        typed ==
            Spread([w \in {m[2] : m \in strs} |->
                        customData[(CHOOSE m \in strs : m[2] = w)[1]]],
            Spread(Prop("value" \in DOMAIN customData, "value",
                        IF "value" \in DOMAIN customData
                        THEN customData.value ELSE 0),
            Spread(Prop("contentIds" \in DOMAIN customData, "content_ids",
                        IF "contentIds" \in DOMAIN customData
                        THEN customData.contentIds ELSE <<>>),
            Spread(Prop("numItems" \in DOMAIN customData, "num_items",
                        IF "numItems" \in DOMAIN customData
                        THEN customData.numItems ELSE 0),
                   Prop("contents" \in DOMAIN customData, "contents",
                        IF "contents" \in DOMAIN customData
                        THEN [k \in 1..Len(customData.contents) |->
                                 createContent(customData.contents[k])]
                        ELSE <<>>)))))
        props == IF "customProperties" \in DOMAIN customData
                 THEN customData.customProperties ELSE EmptyObj
    IN  Spread(typed,
               [k \in DOMAIN props \ reservedFields |-> props[k]])

(***************************************************************************)
(* Errors                                                                  *)
(***************************************************************************)
\* new Error(message)
PlainError(message) == [name |-> "Error", message |-> message]

\* utils.createTrackingError
createTrackingError(message, code, details) ==
    [name |-> "TrackingError", code |-> code, message |-> message,
     details |-> details]

NoDetails == <<>>

(***************************************************************************)
(* Configuration                                                           *)
(***************************************************************************)
\* utils.isValidPixelId: /^\d{15,16}$/
isValidPixelId(pixelId) ==
    /\ Len(pixelId) \in 15..16
    /\ \A k \in 1..Len(pixelId) : pixelId[k] \in Digits

\* utils.isValidAccessToken
isValidAccessToken(accessToken) == Len(accessToken) > 50

\* a JavaScript number in place of a string: its digits behind a marker
NumberValue(digits) == <<"number">> \o digits

\* typeof v === 'string'
IsString(v) == v = <<>> \/ v[1] # "number"

\* utils.validateConfig: the list of errors (warnings have no effect)
validateConfig(c) ==
    (IF ~("pixelId" \in DOMAIN c /\ c.pixelId # <<>>)
        THEN <<"Pixel ID is required">>
     ELSE IF IsString(c.pixelId) /\ ~isValidPixelId(c.pixelId)
        THEN <<"Invalid Pixel ID format">>
     ELSE <<>>)
    \o
    (IF "accessToken" \in DOMAIN c /\ c.accessToken # <<>>
        /\ ~isValidAccessToken(c.accessToken)
        THEN <<"Invalid access token format">>
     ELSE <<>>)

Undefined == <<"u", "n", "d", "e", "f", "i", "n", "e", "d">>

\* `https://graph.facebook.com/${apiVersion}/${pixelId}/events`
EventsUrl(c) ==
    [host |-> "https://graph.facebook.com",
     apiVersion |-> IF "apiVersion" \in DOMAIN c THEN c.apiVersion
                    ELSE "undefined",
     pixelId |-> IF "pixelId" \in DOMAIN c THEN c.pixelId ELSE Undefined,
     path |-> "events"]

\* { ...this.config, ...newConfig }: a key given as undefined ends undefined
MergeConfig(c, newConfig) ==
    LET merged == Spread(c, newConfig.set)
    IN  [k \in DOMAIN merged \ newConfig.unset |-> merged[k]]

\* updateConfig: newConfig.pixelId || newConfig.apiVersion
UrlChanged(newConfig) ==
    \/ "pixelId" \in DOMAIN newConfig.set /\ newConfig.set.pixelId # <<>>
    \/ TruthyStr(newConfig.set, "apiVersion")

ConfigOk == [ok |-> TRUE]

ConfigError(prefix, errors) ==
    [ok |-> FALSE,
     error |-> createTrackingError(<<prefix>> \o errors, "CONFIG_ERROR",
                                   NoDetails)]

\* a getConfig that returns the stored configuration as it is
getConfigWithSecrets(c) ==
    Spread(c, [hasAccessToken |-> "accessToken" \in DOMAIN c
                                   /\ c.accessToken # <<>>,
               hasAppSecret |-> TruthyStr(c, "appSecret")])

\* MetaConversionTracker.getConfig
getConfig(c) ==
    Spread([k \in DOMAIN c \ {"accessToken", "appSecret"} |-> c[k]],
           [hasAccessToken |-> "accessToken" \in DOMAIN c
                                /\ c.accessToken # <<>>,
            hasAppSecret |-> TruthyStr(c, "appSecret")])

\* the constructor's defaults spread under the caller's config
ConstructorConfig(c) == Spread([debug |-> FALSE, apiVersion |-> "v18.0"], c)

\* MetaPixelTracker: the constructor's defaults under the caller's config
PixelConstructorConfig(c) ==
    Spread([debug |-> FALSE, autoInit |-> TRUE, version |-> "2.0",
            agent |-> "meta-tracking-sdk"], c)

(***************************************************************************)
(* Validation and the event builder                                        *)
(***************************************************************************)
MinEventTime == 1000000000
MaxFutureSeconds == 3600
MaxBatchSize == 1000

validActionSources ==
    {"email", "website", "phone_call", "chat", "physical_store",
     "system_generated", "business_messaging", "other"}

\* a validation whose timestamp check has no upper bound
validateServerEventDataNoUpperBound(eventData, now) ==
    IF ~TruthyStr(eventData, "eventName") THEN <<"Event name is required">>
    ELSE IF TruthyStr(eventData, "actionSource")
            /\ eventData.actionSource \notin validActionSources
        THEN <<"Invalid action source: ", eventData.actionSource>>
    ELSE IF TruthyNum(eventData, "eventTime")
            /\ eventData.eventTime < MinEventTime
        THEN <<"Event time must be a valid Unix timestamp within reasonable bounds">>
    ELSE <<>>

\* validateServerEventData: <<>> when it returns, else the message it throws
validateServerEventData(eventData, now) ==
    IF ~TruthyStr(eventData, "eventName") THEN <<"Event name is required">>
    ELSE IF TruthyStr(eventData, "actionSource")
            /\ eventData.actionSource \notin validActionSources
        THEN <<"Invalid action source: ", eventData.actionSource>>
    ELSE IF TruthyNum(eventData, "eventTime")
            /\ (\/ eventData.eventTime < MinEventTime
                \/ eventData.eventTime > now + MaxFutureSeconds)
        THEN <<"Event time must be a valid Unix timestamp within reasonable bounds">>
    ELSE <<>>

\* utils.generateEventId: `${prefix}_${Date.now()}_${random}`
generateEventId(now, random) ==
    [prefix |-> "event", timestamp |-> now, random |-> random]

\* an event id supplied by the caller
GivenId(id) == [given |-> id]

\* a builder that ignores the caller's eventId
EventIdAlwaysGenerated(eventData, now, random) == generateEventId(now, random)

\* the event_id createServerEvent chooses
EventIdOf(eventData, now, random) ==
    IF TruthyStr(eventData, "eventId") THEN GivenId(eventData.eventId)
    ELSE generateEventId(now, random)

\* the caller's event object once createServerEvent has read it: the only
\* callee that assigns to properties is normalizeUserData
EventAfterBuild(eventData, e) ==
    IF "userData" \in DOMAIN eventData
    THEN [eventData EXCEPT
              !.userData = normalizeUserDataHeap(@, e).argument]
    ELSE eventData

\* the caller's events after the call, and which object each
\* normalizeUserData returned; nothing is built when validation throws
CallerObjects(events, built, e) ==
    [after |-> [k \in 1..Len(events) |->
                   IF built THEN EventAfterBuild(events[k], e) ELSE events[k]],
     returns |-> IF built
                 THEN {normalizeUserDataHeap(
                          IF "userData" \in DOMAIN events[k]
                          THEN events[k].userData ELSE EmptyObj,
                          e).returnedIs : k \in 1..Len(events)}
                 ELSE {}]

\* MetaConversionTracker.createServerEvent
createServerEvent(eventData, now, random, e) ==
    Spread([event_name |-> eventData.eventName,
            event_time |-> IF TruthyNum(eventData, "eventTime")
                           THEN eventData.eventTime ELSE now,
            event_id |-> EventIdOf(eventData, now, random),
            action_source |-> IF TruthyStr(eventData, "actionSource")
                              THEN eventData.actionSource ELSE "website",
            user_data |-> createUserData(
                IF "userData" \in DOMAIN eventData THEN eventData.userData
                ELSE EmptyObj, e),
            custom_data |-> createCustomData(
                IF "customData" \in DOMAIN eventData THEN eventData.customData
                ELSE EmptyObj)],
      Spread(Prop(TruthyStr(eventData, "eventSourceUrl") \/ ~e.node,
                  "event_source_url",
                  IF TruthyStr(eventData, "eventSourceUrl")
                  THEN eventData.eventSourceUrl ELSE "window.location.href"),
      Spread(Prop("optOut" \in DOMAIN eventData /\ eventData.optOut,
                  "opt_out", TRUE),
             Prop("dataProcessingOptions" \in DOMAIN eventData,
                  "data_processing_options",
                  IF "dataProcessingOptions" \in DOMAIN eventData
                  THEN eventData.dataProcessingOptions ELSE <<>>))))

(***************************************************************************)
(* Transport                                                               *)
(***************************************************************************)
Resolved(v) == [ok |-> TRUE, value |-> v]
Rejected(err) == [ok |-> FALSE, error |-> err]

\* JSON.stringify of a user_data value: a Promise has no enumerable
\* properties and serialises as {}
JsonValue(v) ==
    IF "promise" \in DOMAIN v THEN [json |-> "object", keys |-> {}]
    ELSE [json |-> "string", text |-> v]

\* JSON.stringify of one server event
JsonEvent(ev) ==
    [ev EXCEPT !.user_data = [k \in DOMAIN @ |-> JsonValue(@[k])]]

\* generateSignature: HMAC under Node, '' in a browser
generateSignature(c, payload, e) ==
    IF e.node THEN [hmac |-> "sha256", key |-> c.appSecret, payload |-> payload]
    ELSE [hmac |-> "none"]

\* makeRequest: requestOptions.body, read from the configuration at the time
\* of the attempt
RequestBody(c, data, e) ==
    LET requestBody ==
            Spread([data |-> [k \in 1..Len(data) |-> JsonEvent(data[k])]],
              Spread(Prop("testEventCode" \in DOMAIN c, "test_event_code",
                          IF "testEventCode" \in DOMAIN c
                          THEN c.testEventCode ELSE ""),
              Spread(Prop("accessToken" \in DOMAIN c, "access_token",
                          IF "accessToken" \in DOMAIN c
                          THEN c.accessToken ELSE <<>>),
                     Prop(TruthyStr(c, "partnerAgent"), "partner_agent",
                          IF "partnerAgent" \in DOMAIN c
                          THEN c.partnerAgent ELSE ""))))
    IN  IF TruthyStr(c, "appSecret")
        THEN Spread(requestBody,
                    [appsecret_proof |-> generateSignature(c, requestBody, e)])
        ELSE requestBody

\* one outbound request as the network sees it
Request(via, url, body) == [via |-> via, url |-> url, body |-> body]

IsOk(status) == status >= 200 /\ status < 300

\* the JSON value null, which JSON.parse and response.json() return as null
JsonNull == [null |-> TRUE]

\* reading a property of null throws
TypeErrorOfNull(property) ==
    [name |-> "TypeError",
     message |-> <<"Cannot read properties of null (reading '", property,
                   "')">>]

\* errorData.error?.message || fallback
RemoteMessage(body, fallback) ==
    IF body.valid /\ "error" \in DOMAIN body.json
        /\ TruthyStr(body.json.error, "message")
    THEN body.json.error.message ELSE fallback

\* makeRequest after fetch resolved with reply (lines 131-143)
FetchResult(reply) ==
    IF ~IsOk(reply.status) /\ reply.body.valid /\ reply.body.json = JsonNull
    THEN Rejected(createTrackingError(
            <<"API request failed: ">> \o TypeErrorOfNull("error").message,
            "API_ERROR", TypeErrorOfNull("error")))
    ELSE IF ~IsOk(reply.status)
    THEN LET message == <<"HTTP ", ToString(reply.status), ": ",
                          RemoteMessage(reply.body, reply.statusText)>>
         IN  Rejected(createTrackingError(<<"API request failed: ">> \o message,
                                          "API_ERROR", PlainError(message)))
    ELSE IF ~reply.body.valid
    THEN Rejected(createTrackingError(
            <<"API request failed: ", "Unexpected token in JSON">>, "API_ERROR",
            [name |-> "SyntaxError",
             message |-> <<"Unexpected token in JSON">>]))
    ELSE Resolved(reply.body.json)

\* makeRequest when fetch itself throws and no fallback applies
FetchFailure(message) ==
    Rejected(createTrackingError(<<"API request failed: ", message>>,
                                 "API_ERROR",
                                 [name |-> "TypeError",
                                  message |-> <<message>>]))

\* the Promise of the https fallback (lines 86-124); makeRequest returns it
\* without awaiting, so its rejection bypasses the catch of line 137
HttpsResult(reply) ==
    IF \/ ~reply.body.valid
       \/ ~IsOk(reply.status) /\ reply.body.json = JsonNull
    THEN Rejected(PlainError(<<"Failed to parse response: ", reply.body.raw>>))
    ELSE IF IsOk(reply.status) THEN Resolved(reply.body.json)
    ELSE Rejected(PlainError(<<"HTTP ", ToString(reply.status), ": ",
                               RemoteMessage(reply.body, reply.body.raw)>>))

\* MetaConversionTracker.transformResponse
transformResponse(resp) ==
    LET eventsReceived ==
            IF TruthyNum(resp, "events_received") THEN resp.events_received
            ELSE 0
    IN  Spread([eventsReceived |-> eventsReceived,
                events_received |-> eventsReceived,
                messages |-> IF "messages" \in DOMAIN resp THEN resp.messages
                             ELSE <<>>,
                numProcessedEntries |->
                    IF TruthyNum(resp, "num_processed_entries")
                    THEN resp.num_processed_entries ELSE 0],
          Spread(Prop("fbtrace_id" \in DOMAIN resp, "fbtrace_id",
                      IF "fbtrace_id" \in DOMAIN resp THEN resp.fbtrace_id
                      ELSE ""),
                 Prop("id" \in DOMAIN resp, "id",
                      IF "id" \in DOMAIN resp THEN resp.id ELSE "")))

\* the function handed to retry: makeRequest, then transformResponse, whose
\* first property read throws when the response is null
FnResult(r) ==
    IF ~r.ok THEN r
    ELSE IF r.value = JsonNull THEN Rejected(TypeErrorOfNull("events_received"))
    ELSE Resolved(transformResponse(r.value))

(***************************************************************************)
(* Retry                                                                   *)
(***************************************************************************)
retryAttempts == 3
retryDelay == 1000

\* Math.random() * 1000, sampled
Jitters == {0, 999}

\* retry, line 377: i === maxRetries
RetryExhausted(k, maxRetries) == k = maxRetries

\* a backoff that grows linearly instead of doubling
BackoffDelayLinear(delay, k, jitter) == delay * (k + 1) + jitter

\* retry, line 382: delay * Math.pow(2, i) + Math.random() * 1000
BackoffDelay(delay, k, jitter) == delay * 2^k + jitter

(***************************************************************************)
(* Inputs                                                                  *)
(***************************************************************************)
Now == 1700000000

PixelA == Rep("1", 15)
PixelB == Rep("2", 16)
TokenA == Rep("t", 51)
TokenB == Rep("u", 60)

Environments ==
    {[node |-> TRUE, hasFetch |-> TRUE], [node |-> TRUE, hasFetch |-> FALSE],
     [node |-> FALSE, hasFetch |-> TRUE]}

ConstructorInputs ==
    {[pixelId |-> PixelA, accessToken |-> TokenA, testEventCode |-> "TEST1"]}

\* arguments of updateConfig: keys set, and keys given as undefined
ConfigUpdates ==
    {[set |-> [pixelId |-> PixelB], unset |-> {}],
     [set |-> [accessToken |-> TokenB], unset |-> {}],
     [set |-> [testEventCode |-> "TEST2"], unset |-> {}],
     [set |-> [apiVersion |-> "v19.0"], unset |-> {}],
     [set |-> [pixelId |-> Rep("1", 5)], unset |-> {}],
     [set |-> EmptyObj, unset |-> {"testEventCode"}]}

UserFull ==
    [email |-> Text(<<" ", "A", "@", "b", " ">>),
     phone |-> Text(<<"+", "1", " ", "2", "3">>),
     firstName |-> Text(<<"A", "b">>),
     lastName |-> Text(<<"C", "a">>),
     city |-> Text(<<"B", "a">>),
     state |-> Text(<<"C", "A">>),
     country |-> Text(<<"a", "b">>),
     zipCode |-> Text(<<"1", "2">>),
     externalId |-> Text(<<"U", "1">>),
     fbp |-> Text(<<"f", "b", ".", "1">>),
     fbc |-> Text(<<"f", "b", ".", "2">>),
     clientIpAddress |-> Text(<<"1", ".", "2">>),
     clientUserAgent |-> Text(<<"A", "/", "1">>)]

UserEmail == [email |-> Text(<<"a", "@", "b">>)]

UserDatas == {EmptyObj, UserEmail, UserFull}

CustomPurchase ==
    [value |-> 9999, currency |-> "USD", orderId |-> "o1",
     contents |-> <<[id |-> "p1", quantity |-> 2, itemPrice |-> 4999]>>,
     customProperties |->
         [coupon |-> "c1", value |-> 1, currency |-> "EUR", order_id |-> "x"]]

\* customData variants: no typed value, and contents whose items carry a
\* zero quantity, no price, a title
CustomDatas ==
    {[customProperties |-> [value |-> 1, campaign |-> "spring"]],
     [contents |-> <<[id |-> "p1", quantity |-> 0, itemPrice |-> 0],
                     [id |-> "p2", title |-> "Shoe", brand |-> "Acme"]>>],
     [contents |-> <<[id |-> "p2", quantity |-> 3, itemPrice |-> 100,
                      category |-> "shoes"],
                     [id |-> "p1", quantity |-> 1, itemPrice |-> 4999]>>]}

BaseEvent ==
    [eventName |-> "Purchase", eventSourceUrl |-> "https://shop/x",
     userData |-> UserEmail, customData |-> CustomPurchase]

\* the event the batches at the size limit repeat
MinimalEvent == [eventName |-> "PageView"]

With(r, k, v) == Spread(r, [x \in {k} |-> v])

Without(r, k) == [x \in DOMAIN r \ {k} |-> r[x]]

EventNames == {"", "Foo"}
ActionSources ==
    {"", "website", "email", "app", "phone_call", "chat", "physical_store",
     "system_generated", "business_messaging", "other", "bogus"}
EventTimes ==
    {0, -5, 500000000, MinEventTime, Now, Now + MaxFutureSeconds,
     Now + MaxFutureSeconds + 1}

\* single events: the base event with one property varied
Events ==
    {BaseEvent, Without(BaseEvent, "eventName"),
     Without(BaseEvent, "eventSourceUrl"), With(BaseEvent, "eventId", "id1"),
     With(BaseEvent, "optOut", TRUE)}
    \cup {With(BaseEvent, "eventName", n) : n \in EventNames}
    \cup {With(BaseEvent, "actionSource", a) : a \in ActionSources}
    \cup {With(BaseEvent, "eventTime", t) : t \in EventTimes}
    \cup {With(BaseEvent, "userData", u) : u \in UserDatas}
    \cup {With(BaseEvent, "customData", d) : d \in CustomDatas}

\* events the enumerated batches are made of
BatchEvents ==
    {With(BaseEvent, "eventId", "id1"), With(BaseEvent, "userData", UserFull),
     With(BaseEvent, "eventTime", 500000000)}

RECURSIVE SeqsUpTo(_, _)
SeqsUpTo(S, n) ==
    IF n = 0 THEN {<<>>}
    ELSE LET shorter == SeqsUpTo(S, n - 1)
         IN  shorter \cup {Append(q, x) : q \in shorter, x \in S}

Batches == SeqsUpTo(BatchEvents, MaxBatchLen)

\* the batches at and just over the size limit
LimitBatches ==
    {Rep(MinimalEvent, MaxBatchSize), Rep(MinimalEvent, MaxBatchSize + 1)}

Randoms == {"r1", "r2"}

OkJson == [events_received |-> 1, messages |-> <<>>, fbtrace_id |-> "trace1"]
ErrorJson ==
    [error |-> [message |-> "Invalid parameter", fbtrace_id |-> "trace2"]]

Bodies ==
    {[valid |-> TRUE, raw |-> "ok", json |-> OkJson],
     [valid |-> TRUE, raw |-> "{}", json |-> EmptyObj],
     [valid |-> TRUE, raw |-> "error", json |-> ErrorJson],
     [valid |-> TRUE, raw |-> "null", json |-> JsonNull],
     [valid |-> FALSE, raw |-> "<html>"]}

Replies ==
    {[status |-> 200, statusText |-> "OK", body |-> b] : b \in Bodies}
    \cup {[status |-> 400, statusText |-> "Bad Request", body |-> b] :
            b \in Bodies}

(***************************************************************************)
(* State machine                                                           *)
(***************************************************************************)
NoCall == [kind |-> "none"]
NoResult == [pending |-> TRUE]
NoError == [name |-> "none"]
NoBody == EmptyObj
NoDelay == [wait |-> 0, jitter |-> 0]
NoReply == [status |-> 0]

\* the ids of the elements the trackers insert (index.ts 844,
\* GTMTracker.ts 149 and 176)
ElementIds == {"facebook-pixel-script", "gtm-script", "gtm-noscript"}

NoTracker == [exists |-> FALSE]
NoDataLayer == [defined |-> FALSE, events |-> <<>>]

\* a page on which no tracker has run
NoBrowser ==
    /\ dom = [id \in ElementIds |-> 0]
    /\ docBody = FALSE
    /\ fbq = "undefined"
    /\ dataLayer = NoDataLayer
    /\ pixel = [k \in 1..MaxTrackers |-> NoTracker]
    /\ gtm = [k \in 1..MaxTrackers |-> NoTracker]
    /\ hybrid = NoTracker
    /\ hcall = NoCall
    /\ fbqCalls = <<>>
    /\ thrown = "none"

\* the fields of a call before its first attempt
Fresh ==
    /\ i' = 0
    /\ attempts' = 0
    /\ lastError' = NoError
    /\ reqBody' = NoBody
    /\ log' = <<>>
    /\ backoffDelay' = NoDelay
    /\ fnOutcomes' = <<>>
    /\ fnLast' = NoResult
    /\ lastReply' = NoReply

Init ==
    /\ NoBrowser
    /\ env \in Environments
    /\ \E c \in ConstructorInputs :
        /\ validateConfig(ConstructorConfig(c)) = <<>>
        /\ config = ConstructorConfig(c)
        /\ baseUrl = EventsUrl(ConstructorConfig(c))
    /\ cfgError = ConfigOk
    /\ updates = 0
    /\ pc = "idle"
    /\ call = NoCall
    /\ serverEvents = <<>>
    /\ i = 0
    /\ attempts = 0
    /\ lastError = NoError
    /\ reqBody = NoBody
    /\ log = <<>>
    /\ backoffDelay = NoDelay
    /\ result = NoResult
    /\ started = [config |-> config, baseUrl |-> baseUrl]
    /\ fnOutcomes = <<>>
    /\ fnLast = NoResult
    /\ lastReply = NoReply

\* MetaConversionTracker.updateConfig
UpdateConfig(newConfig) ==
    /\ updates < MaxUpdates
    /\ updates' = updates + 1
    /\ config' = MergeConfig(config, newConfig)
    /\ baseUrl' = IF UrlChanged(newConfig) THEN EventsUrl(config') ELSE baseUrl
    /\ cfgError' = IF validateConfig(config') = <<>> THEN ConfigOk
                   ELSE ConfigError("Invalid configuration update: ",
                                    validateConfig(config'))
    /\ UNCHANGED browserVars
    /\ UNCHANGED <<env, pc, call, serverEvents, i, attempts, lastError,
                   reqBody, log, backoffDelay, result, started, fnOutcomes,
                   fnLast, lastReply>>

\* the call rejects before retry is entered
RejectValidation(message) ==
    /\ result' = Rejected(createTrackingError(message, "VALIDATION_ERROR",
                                              NoDetails))
    /\ pc' = "done"
    /\ serverEvents' = <<>>

\* MetaConversionTracker.sendEvent up to the call of retry
SendEvent(eventData, random) ==
    /\ pc = "idle"
    /\ call' = [kind |-> "single", input |-> <<eventData>>, now |-> Now,
                caller |-> CallerObjects(<<eventData>>,
                    validateServerEventData(eventData, Now) = <<>>, env)]
    /\ started' = [config |-> config, baseUrl |-> baseUrl]
    /\ Fresh
    /\ LET message == validateServerEventData(eventData, Now)
       IN  IF message # <<>> THEN RejectValidation(message)
           ELSE /\ serverEvents' =
                       <<createServerEvent(eventData, Now, <<random, 1>>, env)>>
                /\ pc' = "attempt"
                /\ result' = NoResult
    /\ UNCHANGED browserVars
    /\ UNCHANGED <<env, config, baseUrl, cfgError, updates>>

\* index of the first event of the batch that fails validation, 0 if none
FirstInvalid(events, now) ==
    LET bad == {k \in 1..Len(events) :
                   validateServerEventData(events[k], now) # <<>>}
    IN  IF bad = {} THEN 0 ELSE CHOOSE k \in bad : \A m \in bad : k <= m

\* MetaConversionTracker.sendBatchEvents up to the call of retry
SendBatchEvents(events, random) ==
    /\ pc = "idle"
    /\ call' = [kind |-> "batch", input |-> events, now |-> Now,
                caller |-> CallerObjects(events,
                    /\ Len(events) \in 1..MaxBatchSize
                    /\ FirstInvalid(events, Now) = 0, env)]
    /\ started' = [config |-> config, baseUrl |-> baseUrl]
    /\ Fresh
    /\ IF Len(events) = 0
       THEN RejectValidation(<<"Events array is required and cannot be empty">>)
       ELSE IF Len(events) > MaxBatchSize
       THEN RejectValidation(<<"Maximum 1000 events per batch allowed">>)
       ELSE IF FirstInvalid(events, Now) # 0
       THEN LET k == FirstInvalid(events, Now)
            IN  RejectValidation(<<"Event ", ToString(k - 1), ": ">>
                    \o validateServerEventData(events[k], Now))
       ELSE /\ serverEvents' =
                   [k \in 1..Len(events) |->
                       createServerEvent(events[k], Now, <<random, k>>, env)]
            /\ pc' = "attempt"
            /\ result' = NoResult
    /\ UNCHANGED browserVars
    /\ UNCHANGED <<env, config, baseUrl, cfgError, updates>>

\* a loop that awaits fn without returning its value
NextPcIgnoresSuccess(ok, exhausted) == IF exhausted THEN "done" ELSE "backoff"

\* retry, lines 373-383: where the loop goes once fn has settled
NextPc(ok, exhausted) ==
    IF ok THEN "done" ELSE IF exhausted THEN "done" ELSE "backoff"

\* retry: fn settled with r, in answer to reply (lines 373-384)
Settle(r, reply) ==
    LET next == NextPc(r.ok, RetryExhausted(i, retryAttempts))
    IN  /\ fnOutcomes' = Append(fnOutcomes, r.ok)
        /\ fnLast' = r
        /\ lastReply' = reply
        /\ lastError' = IF r.ok THEN lastError ELSE r.error
        /\ pc' = next
        /\ result' = IF next # "done" THEN result
                     ELSE IF r.ok THEN r ELSE Rejected(lastError')
        /\ IF next = "backoff"
           THEN \E jitter \in Jitters :
                    backoffDelay' =
                        [wait |-> BackoffDelay(retryDelay, i, jitter),
                         jitter |-> jitter]
           ELSE UNCHANGED backoffDelay

\* the transport path makeRequest takes first (lines 76-129)
FirstPath(e) ==
    IF e.hasFetch THEN "fetch" ELSE IF e.node THEN "https" ELSE "none"

\* whether a failed fetch is followed by the https request (lines 80-125)
FallsBack(e) == e.node

\* retry calls fn: makeRequest builds the request and issues it
StartAttempt ==
    /\ pc = "attempt"
    /\ attempts' = attempts + 1
    /\ reqBody' = RequestBody(config, serverEvents, env)
    /\ IF FirstPath(env) = "none"
       THEN /\ Settle(FetchFailure("fetch is not defined"), NoReply)
            /\ UNCHANGED log
       ELSE /\ log' = Append(log, Request(FirstPath(env), baseUrl, reqBody'))
            /\ pc' = FirstPath(env)
            /\ UNCHANGED <<lastError, backoffDelay, result, fnOutcomes,
                           fnLast, lastReply>>
    /\ UNCHANGED browserVars
    /\ UNCHANGED <<env, config, baseUrl, cfgError, updates, call,
                   serverEvents, i, started>>

\* fetch rejects: connectivity failure
FetchRejects ==
    /\ pc = "fetch"
    /\ IF FallsBack(env)
       THEN /\ log' = Append(log, Request("https", baseUrl, reqBody))
            /\ pc' = "https"
            /\ UNCHANGED <<lastError, backoffDelay, result, fnOutcomes,
                           fnLast, lastReply>>
       ELSE /\ Settle(FetchFailure("Failed to fetch"), NoReply)
            /\ UNCHANGED log
    /\ UNCHANGED browserVars
    /\ UNCHANGED <<env, config, baseUrl, cfgError, updates, call,
                   serverEvents, i, attempts, reqBody, started>>

\* fetch resolves with a response
FetchResponds(reply) ==
    /\ pc = "fetch"
    /\ Settle(FnResult(FetchResult(reply)), reply)
    /\ UNCHANGED browserVars
    /\ UNCHANGED <<env, config, baseUrl, cfgError, updates, call,
                   serverEvents, i, attempts, reqBody, log, started>>

\* the https request emits 'error'
HttpsRejects ==
    /\ pc = "https"
    /\ Settle(Rejected(PlainError(<<"connect ECONNREFUSED">>)), NoReply)
    /\ UNCHANGED browserVars
    /\ UNCHANGED <<env, config, baseUrl, cfgError, updates, call,
                   serverEvents, i, attempts, reqBody, log, started>>

\* the https response ends
HttpsResponds(reply) ==
    /\ pc = "https"
    /\ Settle(FnResult(HttpsResult(reply)), reply)
    /\ UNCHANGED browserVars
    /\ UNCHANGED <<env, config, baseUrl, cfgError, updates, call,
                   serverEvents, i, attempts, reqBody, log, started>>

\* retry: the backoff timer fires and the loop goes round (line 371)
BackoffFires ==
    /\ pc = "backoff"
    /\ i' = i + 1
    /\ pc' = "attempt"
    /\ UNCHANGED browserVars
    /\ UNCHANGED <<env, config, baseUrl, cfgError, updates, call,
                   serverEvents, attempts, lastError, reqBody, log,
                   backoffDelay, result, started, fnOutcomes, fnLast,
                   lastReply>>

\* the caller has observed the settled call; its state is dropped
Return ==
    /\ pc = "done"
    /\ pc' = "idle"
    /\ call' = NoCall
    /\ serverEvents' = <<>>
    /\ Fresh
    /\ result' = NoResult
    /\ started' = [config |-> config, baseUrl |-> baseUrl]
    /\ UNCHANGED browserVars
    /\ UNCHANGED <<env, config, baseUrl, cfgError, updates>>

\* one step of a call that has entered retry
CallStep ==
    \/ StartAttempt
    \/ FetchRejects
    \/ \E reply \in Replies : FetchResponds(reply)
    \/ HttpsRejects
    \/ \E reply \in Replies : HttpsResponds(reply)
    \/ BackoffFires
    \/ Return

\* calls on a tracker whose configuration stays as constructed
Next ==
    \/ \E eventData \in Events, random \in Randoms : SendEvent(eventData, random)
    \/ \E events \in Batches, random \in Randoms : SendBatchEvents(events, random)
    \/ \E events \in LimitBatches : SendBatchEvents(events, "r1")
    \/ CallStep

Spec == Init /\ [][Next]_vars

\* calls interleaved with configuration updates
UpdateEvents == {BaseEvent}
UpdateBatches == {<<BaseEvent, With(BaseEvent, "eventId", "id1")>>}

NextUpdate ==
    \/ \E newConfig \in ConfigUpdates : UpdateConfig(newConfig)
    \/ \E eventData \in UpdateEvents : SendEvent(eventData, "r1")
    \/ \E events \in UpdateBatches : SendBatchEvents(events, "r1")
    \/ CallStep

SpecUpdate == Init /\ [][NextUpdate]_vars

\* calls whose requests all settle and whose backoff timers all fire: every
\* step of a call in flight is eventually taken
NextLive ==
    \/ \E eventData \in UpdateEvents : SendEvent(eventData, "r1")
    \/ \E events \in UpdateBatches : SendBatchEvents(events, "r1")
    \/ CallStep

SpecLive == Init /\ [][NextLive]_vars /\ WF_vars(CallStep)

(***************************************************************************)
(* Construction                                                            *)
(***************************************************************************)
\* pixelId values a caller may configure: 15 and 16 digits, shorter, longer,
\* non-numeric, empty, and a number instead of a string
PixelIds ==
    {PixelA, PixelB, Rep("1", 14), Rep("1", 17), Rep("1", 5),
     <<"a", "b", "c">> \o Rep("4", 12), <<>>, NumberValue(Rep("1", 5)),
     NumberValue(PixelA)}

\* accessToken values: empty, short, one below, at and above 50 characters
AccessTokens == {<<>>, Rep("t", 10), Rep("t", 49), Rep("t", 50), TokenA}

\* objects with key k absent or set to a value of S
Optional(k, S) == {EmptyObj} \cup {[x \in {k} |-> v] : v \in S}

ConversionConfigs ==
    {Spread(a, b) : a \in Optional("pixelId", PixelIds),
                    b \in Optional("accessToken", AccessTokens)}

\* autoInit is off, so the constructor ends after the validation
PixelConfigs ==
    {Spread([autoInit |-> FALSE], a) : a \in Optional("pixelId", PixelIds)}

\* arguments of updateConfig on a constructed tracker: those of
\* ConfigUpdates, and ones that empty or unset apiVersion, pixelId and the
\* access token, or set an app secret
ConstructedUpdates ==
    ConfigUpdates
    \cup {[set |-> [apiVersion |-> ""], unset |-> {}],
          [set |-> EmptyObj, unset |-> {"apiVersion"}],
          [set |-> [pixelId |-> <<>>], unset |-> {}],
          [set |-> EmptyObj, unset |-> {"pixelId"}],
          [set |-> [appSecret |-> "s1"], unset |-> {}],
          [set |-> [appSecret |-> "s2", accessToken |-> TokenB], unset |-> {}]}

NoUrl == [host |-> "none"]

\* no tracker has been constructed
InitNew ==
    /\ NoBrowser
    /\ env \in Environments
    /\ config = EmptyObj
    /\ baseUrl = NoUrl
    /\ cfgError = ConfigOk
    /\ updates = 0
    /\ pc = "new"
    /\ call = NoCall
    /\ serverEvents = <<>>
    /\ i = 0
    /\ attempts = 0
    /\ lastError = NoError
    /\ reqBody = NoBody
    /\ log = <<>>
    /\ backoffDelay = NoDelay
    /\ result = NoResult
    /\ started = [config |-> config, baseUrl |-> baseUrl]
    /\ fnOutcomes = <<>>
    /\ fnLast = NoResult
    /\ lastReply = NoReply

\* the end of both constructors: validateConfig, then throw or return
Validated(class, c) ==
    /\ pc = "new"
    /\ call' = [kind |-> "construct", class |-> class, input |-> c]
    /\ cfgError' = IF validateConfig(config') = <<>> THEN ConfigOk
                   ELSE ConfigError("Invalid configuration: ",
                                    validateConfig(config'))
    /\ pc' = IF validateConfig(config') = <<>> THEN "idle" ELSE "thrown"
    /\ started' = [config |-> config', baseUrl |-> baseUrl']
    /\ UNCHANGED browserVars
    /\ UNCHANGED <<env, updates, serverEvents, i, attempts, lastError,
                   reqBody, log, backoffDelay, result, fnOutcomes, fnLast,
                   lastReply>>

\* new MetaConversionTracker(c)
ConstructConversionTracker(c) ==
    /\ config' = ConstructorConfig(c)
    /\ baseUrl' = EventsUrl(config')
    /\ Validated("MetaConversionTracker", c)

\* new MetaPixelTracker(c)
ConstructPixelTracker(c) ==
    /\ config' = PixelConstructorConfig(c)
    /\ UNCHANGED baseUrl
    /\ Validated("MetaPixelTracker", c)

\* updateConfig on a tracker the constructor returned
UpdateConstructed(newConfig) ==
    /\ pc = "idle"
    /\ call.class = "MetaConversionTracker"
    /\ UpdateConfig(newConfig)

\* the caller lets go of the tracker, or of the error thrown
Discard ==
    /\ pc \in {"idle", "thrown"}
    /\ pc' = "new"
    /\ call' = NoCall
    /\ config' = EmptyObj
    /\ baseUrl' = NoUrl
    /\ cfgError' = ConfigOk
    /\ updates' = 0
    /\ started' = [config |-> config', baseUrl |-> baseUrl']
    /\ UNCHANGED browserVars
    /\ UNCHANGED <<env, serverEvents, i, attempts, lastError, reqBody, log,
                   backoffDelay, result, fnOutcomes, fnLast, lastReply>>

NextConfig ==
    \/ \E c \in ConversionConfigs : ConstructConversionTracker(c)
    \/ \E c \in PixelConfigs : ConstructPixelTracker(c)
    \/ \E newConfig \in ConstructedUpdates : UpdateConstructed(newConfig)
    \/ Discard

\* construction and reconfiguration of trackers
SpecConfig == InitNew /\ [][NextConfig]_vars

(***************************************************************************)
(* Browser side: MetaPixelTracker (src/src/index.ts 700-1116), GTMTracker  *)
(* (src/src/GTMTracker.ts) and HybridTracker (src/src/index.ts 304-694).   *)
(*                                                                         *)
(* A method is an operator from the tracker and the "world" it runs in     *)
(* (the document, window.fbq, window.dataLayer, the calls of fbq it made,  *)
(* whether it caught an error, the error it throws) to the tracker and     *)
(* the world it leaves; an action applies a method to the page.            *)
(***************************************************************************)
BrowserEnv == [node |-> FALSE, hasFetch |-> TRUE]

TruthyBool(r, k) == k \in DOMAIN r /\ r[k]

\* the world a method starts in
World ==
    [dom |-> dom, body |-> docBody, fbq |-> fbq, dataLayer |-> dataLayer,
     calls |-> <<>>, caught |-> FALSE, error |-> "none"]

\* document.getElementById(id) !== null
InDocument(d, id) == d[id] > 0

\* insertBefore / appendChild of a new element with this id
Inserted(d, id) == [d EXCEPT ![id] = @ + 1]

\* a loader that inserts the script without looking for it
loadPixelScriptUnguarded(d) == Inserted(d, "facebook-pixel-script")

\* MetaPixelTracker.loadPixelScript
loadPixelScript(d) ==
    IF InDocument(d, "facebook-pixel-script") THEN d
    ELSE Inserted(d, "facebook-pixel-script")

\* MetaPixelTracker.setupPixel: a falsy window.fbq is replaced by the stub
\* function, a truthy one is called as it is (a TypeError when it is not a
\* function); the debug wrapper leaves window.fbq a function
setupPixel(t, w) ==
    LET f == IF w.fbq = "undefined" THEN "function" ELSE w.fbq
    IN  IF f # "function" THEN [w EXCEPT !.error = "TypeError"]
        ELSE [w EXCEPT !.fbq = f,
                       !.calls = Append(@, [method |-> "init",
                                            pixelId |-> t.config.pixelId]),
                       !.dom = loadPixelScript(@)]

\* MetaPixelTracker.init in a browser; initSince observes that an init has
\* completed since construction or the last updateConfig
pixelInit(t, w) ==
    IF t.isInitialized THEN [t |-> t, w |-> w]
    ELSE LET s == setupPixel(t, w)
         IN  IF s.error = "none"
             THEN [t |-> [t EXCEPT !.isInitialized = TRUE, !.initSince = TRUE],
                   w |-> s]
             ELSE [t |-> t, w |-> [s EXCEPT !.error = "INIT_ERROR"]]

\* MetaPixelTracker.isReady in a browser
pixelIsReady(t, f) == t.isInitialized /\ f = "function"

\* new MetaPixelTracker(c) in a browser: NoTracker when it throws
newMetaPixelTracker(c, w) ==
    LET t == [exists |-> TRUE, config |-> PixelConstructorConfig(c),
              isInitialized |-> FALSE, initSince |-> FALSE]
        r == IF TruthyBool(t.config, "autoInit") THEN pixelInit(t, w)
             ELSE [t |-> t, w |-> w]
    IN  IF validateConfig(t.config) # <<>>
        THEN [t |-> NoTracker, w |-> [w EXCEPT !.error = "CONFIG_ERROR"]]
        ELSE IF r.w.error # "none" THEN [t |-> NoTracker, w |-> r.w]
        ELSE r

\* an updateConfig that leaves isInitialized as it was
pixelUpdateConfigKeepsInitialized(t, w, newConfig) ==
    LET u == [t EXCEPT !.config = Spread(@, newConfig), !.initSince = FALSE]
    IN  IF TruthyBool(u.config, "autoInit") THEN pixelInit(u, w)
        ELSE [t |-> u, w |-> w]

\* MetaPixelTracker.updateConfig in a browser
pixelUpdateConfig(t, w, newConfig) ==
    LET u == [t EXCEPT !.config = Spread(@, newConfig),
                       !.isInitialized = FALSE, !.initSince = FALSE]
    IN  IF TruthyBool(u.config, "autoInit") THEN pixelInit(u, w)
        ELSE [t |-> u, w |-> w]

\* no eventId argument
NoId == [undefined |-> TRUE]

\* MetaPixelTracker.trackEvent in a browser; fbqThrows: the call of
\* window.fbq throws
trackEvent(t, w, eventName, parameters, eventId, fbqThrows) ==
    LET r == IF t.isInitialized THEN [t |-> t, w |-> w] ELSE pixelInit(t, w)
        eventData ==
            Spread(Spread(parameters, Prop(eventId # NoId, "eventID", eventId)),
                   Prop(TruthyStr(t.config, "testEventCode"), "test_event_code",
                        t.config.testEventCode))
    IN  IF r.w.error # "none" \/ r.w.fbq = "undefined" THEN r
        ELSE IF fbqThrows \/ r.w.fbq # "function"
        THEN [r EXCEPT !.w.caught = TRUE]
        ELSE [r EXCEPT !.w.calls =
                  Append(@, [method |-> "track", eventName |-> eventName,
                             eventData |-> eventData])]

\* utils.generateEventId(prefix)
generateEventIdFor(prefix, now, random) ==
    [generateEventId(now, random) EXCEPT !.prefix = prefix]

\* data.eventId || generateEventId(prefix)
IdOr(data, prefix, now, random) ==
    IF TruthyStr(data, "eventId") THEN GivenId(data.eventId)
    ELSE generateEventIdFor(prefix, now, random)

\* o[k] || otherwise
Or(o, k, otherwise) == IF TruthyStr(o, k) THEN o[k] ELSE otherwise

\* product.quantity || 1
QuantityOf(product) ==
    IF TruthyNum(product, "quantity") THEN product.quantity ELSE 1

\* the properties of o named in m (pairs <<key of o, new key>>) that are
\* defined, under their new keys
Renamed(o, m) ==
    LET present == {p \in m : p[1] \in DOMAIN o}
    IN  [k \in {p[2] : p \in present} |->
            o[(CHOOSE p \in present : p[2] = k)[1]]]

\* o.customData spread into an object literal
CustomDataOf(o) == IF "customData" \in DOMAIN o THEN o.customData ELSE EmptyObj

\* the parameters trackProductView, trackAddToCart and trackAddToWishlist
\* build from a product
ProductParameters(product, quantity) ==
    Spread([content_ids |-> <<product.id>>, content_name |-> product.name,
            content_type |-> "product", value |-> product.price * quantity,
            currency |-> Or(product, "currency", "USD")],
           Renamed(product, {<<"category", "content_category">>,
                             <<"brand", "brand">>}))

\* the parameters trackInitiateCheckout and trackPurchase build
CheckoutParameters(data) ==
    Spread(Spread([content_ids |->
                       [k \in 1..Len(data.products) |-> data.products[k].id],
                   contents |->
                       [k \in 1..Len(data.products) |->
                           [id |-> data.products[k].id,
                            quantity |-> QuantityOf(data.products[k]),
                            item_price |-> data.products[k].price]],
                   value |-> data.value, currency |-> data.currency,
                   num_items |-> Len(data.products)],
                  Renamed(data, {<<"orderId", "transaction_id">>})),
           CustomDataOf(data))

\* the track methods of MetaPixelTracker (index.ts 895-1082): the arguments
\* each passes to trackEvent
PixelCall(method, data, now, random) ==
    CASE method = "trackEvent" ->
            [eventName |-> data.eventName, parameters |-> data.parameters,
             eventId |-> IF "eventId" \in DOMAIN data THEN data.eventId
                         ELSE NoId]
      [] method = "trackPageView" ->
            [eventName |-> "PageView", parameters |-> EmptyObj,
             eventId |-> NoId]
      [] method = "trackProductView" ->
            [eventName |-> "ViewContent",
             parameters |-> ProductParameters(data, 1),
             eventId |-> generateEventIdFor("pv", now, random)]
      [] method = "trackAddToCart" ->
            [eventName |-> "AddToCart",
             parameters |->
                 Spread(ProductParameters(data, QuantityOf(data)),
                        [contents |-> <<[id |-> data.id,
                                         quantity |-> QuantityOf(data),
                                         item_price |-> data.price]>>]),
             eventId |-> generateEventIdFor("atc", now, random)]
      [] method = "trackInitiateCheckout" ->
            [eventName |-> "InitiateCheckout",
             parameters |-> CheckoutParameters(data),
             eventId |-> IdOr(data, "ic", now, random)]
      [] method = "trackPurchase" ->
            [eventName |-> "Purchase",
             parameters |-> CheckoutParameters(data),
             eventId |-> IdOr(data, "purchase", now, random)]
      [] method = "trackSearch" ->
            [eventName |-> "Search",
             parameters |-> Spread([search_string |-> data.searchTerm],
                                   CustomDataOf(data)),
             eventId |-> IdOr(data, "search", now, random)]
      [] method = "trackRegistration" ->
            [eventName |-> "CompleteRegistration",
             parameters |->
                 Spread(Renamed(data, {<<"method", "registration_method">>,
                                       <<"status", "status">>}),
                        CustomDataOf(data)),
             eventId |-> IdOr(data, "reg", now, random)]
      [] method = "trackAddToWishlist" ->
            [eventName |-> "AddToWishlist",
             parameters |-> ProductParameters(data, 1),
             eventId |-> generateEventIdFor("atw", now, random)]
      [] method = "trackLead" ->
            [eventName |-> "Lead",
             parameters |->
                 Spread(Spread(Renamed(data, {<<"value", "value">>}),
                               [currency |-> Or(data, "currency", "USD")]),
                        data),
             eventId |-> generateEventIdFor("lead", now, random)]

\* a pixel track method run on tracker t
pixelTrack(t, w, method, data, now, random, fbqThrows) ==
    LET a == PixelCall(method, data, now, random)
    IN  trackEvent(t, w, a.eventName, a.parameters, a.eventId, fbqThrows)

\* GTMTracker constructor: the defaults under the caller's config
GTMConstructorConfig(c) ==
    Spread([debug |-> FALSE, autoTrackPageViews |-> TRUE,
            dataLayerName |-> "dataLayer", defaultCurrency |-> "USD"], c)

\* GTMTracker.pushEvent in a browser; an event is known by its name
pushEvent(w, event) ==
    IF w.dataLayer.defined
    THEN [w EXCEPT !.dataLayer.events = Append(@, event)]
    ELSE w

\* GTMTracker.addNoScriptFallback: document.body is null until the body
\* has been parsed
addNoScriptFallback(w) ==
    IF InDocument(w.dom, "gtm-noscript") THEN w
    ELSE IF ~w.body THEN [w EXCEPT !.error = "TypeError"]
    ELSE [w EXCEPT !.dom = Inserted(@, "gtm-noscript")]

\* GTMTracker.loadGTMScript: the inline script runs when it is appended and
\* pushes gtm.js
loadGTMScript(w) ==
    IF InDocument(w.dom, "gtm-script") THEN w
    ELSE addNoScriptFallback(
             pushEvent([w EXCEPT !.dom = Inserted(@, "gtm-script")], "gtm.js"))

\* GTMTracker.init in a browser
gtmInit(g, w) ==
    IF g.isInitialized THEN [t |-> g, w |-> w]
    ELSE LET s == loadGTMScript([w EXCEPT !.dataLayer.defined = TRUE])
         IN  IF s.error # "none"
             THEN [t |-> g, w |-> [s EXCEPT !.error = "INIT_ERROR"]]
             ELSE [t |-> [g EXCEPT !.isInitialized = TRUE],
                   w |-> IF TruthyBool(g.config, "autoTrackPageViews")
                         THEN pushEvent(s, "page_view") ELSE s]

\* new GTMTracker(c) in a browser: NoTracker when it throws
newGTMTracker(c, w) ==
    LET g == [exists |-> TRUE, config |-> GTMConstructorConfig(c),
              isInitialized |-> FALSE]
        r == gtmInit(g, w)
    IN  IF ~TruthyStr(g.config, "gtmId")
        THEN [t |-> NoTracker, w |-> [w EXCEPT !.error = "CONFIG_ERROR"]]
        ELSE IF r.w.error # "none" THEN [t |-> NoTracker, w |-> r.w]
        ELSE r

\* the track calls the page makes on a MetaPixelTracker
PixelCalls ==
    {[method |-> "trackPageView", data |-> EmptyObj],
     [method |-> "trackEvent",
      data |-> [eventName |-> "Custom", parameters |-> [step |-> 1],
                eventId |-> GivenId("e1")]],
     [method |-> "trackSearch", data |-> [searchTerm |-> "shoes"]]}

\* the page as a method leaves it
Commit(w) ==
    /\ dom' = w.dom
    /\ fbq' = w.fbq
    /\ dataLayer' = w.dataLayer
    /\ fbqCalls' = w.calls
    /\ thrown' = w.error
    /\ UNCHANGED <<docBody, serverVars>>

\* a page that has not run a tracker yet: window.fbq may have been set by a
\* snippet of the page, and the body may not have been parsed
InitBrowser ==
    /\ dom = [id \in ElementIds |-> 0]
    /\ docBody \in BOOLEAN
    /\ fbq \in {"undefined", "function", "object"}
    /\ dataLayer = NoDataLayer
    /\ pixel = [k \in 1..MaxTrackers |-> NoTracker]
    /\ gtm = [k \in 1..MaxTrackers |-> NoTracker]
    /\ hybrid = NoTracker
    /\ hcall = NoCall
    /\ fbqCalls = <<>>
    /\ thrown = "none"
    /\ env = BrowserEnv
    /\ config = EmptyObj
    /\ baseUrl = NoUrl
    /\ cfgError = ConfigOk
    /\ updates = 0
    /\ pc = "new"
    /\ call = NoCall
    /\ serverEvents = <<>>
    /\ i = 0
    /\ attempts = 0
    /\ lastError = NoError
    /\ reqBody = NoBody
    /\ log = <<>>
    /\ backoffDelay = NoDelay
    /\ result = NoResult
    /\ started = [config |-> config, baseUrl |-> baseUrl]
    /\ fnOutcomes = <<>>
    /\ fnLast = NoResult
    /\ lastReply = NoReply

\* the parser reaches <body>
BodyParsed ==
    /\ ~docBody
    /\ docBody' = TRUE
    /\ UNCHANGED <<dom, fbq, dataLayer, pixel, gtm, hybrid, hcall, fbqCalls,
                   thrown, serverVars>>

\* pixel[k] = new MetaPixelTracker(c)
ConstructPixel(k, c) ==
    /\ ~pixel[k].exists
    /\ \A j \in 1..(k - 1) : pixel[j].exists
    /\ LET r == newMetaPixelTracker(c, World)
       IN  pixel' = [pixel EXCEPT ![k] = r.t] /\ Commit(r.w)
    /\ UNCHANGED <<gtm, hybrid, hcall>>

\* pixel[k].init()
PixelInit(k) ==
    /\ pixel[k].exists
    /\ LET r == pixelInit(pixel[k], World)
       IN  pixel' = [pixel EXCEPT ![k] = r.t] /\ Commit(r.w)
    /\ UNCHANGED <<gtm, hybrid, hcall>>

\* pixel[k].updateConfig(newConfig)
PixelUpdateConfig(k, newConfig) ==
    /\ pixel[k].exists
    /\ LET r == pixelUpdateConfig(pixel[k], World, newConfig)
       IN  pixel' = [pixel EXCEPT ![k] = r.t] /\ Commit(r.w)
    /\ UNCHANGED <<gtm, hybrid, hcall>>

\* a track method of pixel[k]
PixelTrack(k, c, random, fbqThrows) ==
    /\ pixel[k].exists
    /\ LET r == pixelTrack(pixel[k], World, c.method, c.data, Now, random,
                           fbqThrows)
       IN  pixel' = [pixel EXCEPT ![k] = r.t] /\ Commit(r.w)
    /\ UNCHANGED <<gtm, hybrid, hcall>>

\* gtm[k] = new GTMTracker(c)
ConstructGTM(k, c) ==
    /\ ~gtm[k].exists
    /\ \A j \in 1..(k - 1) : gtm[j].exists
    /\ LET r == newGTMTracker(c, World)
       IN  gtm' = [gtm EXCEPT ![k] = r.t] /\ Commit(r.w)
    /\ UNCHANGED <<pixel, hybrid, hcall>>

\* gtm[k].init()
GTMInit(k) ==
    /\ gtm[k].exists
    /\ LET r == gtmInit(gtm[k], World)
       IN  gtm' = [gtm EXCEPT ![k] = r.t] /\ Commit(r.w)
    /\ UNCHANGED <<pixel, hybrid, hcall>>

\* gtm[k].updateConfig(newConfig)
GTMUpdateConfig(k, newConfig) ==
    /\ gtm[k].exists
    /\ gtm' = [gtm EXCEPT ![k].config = Spread(@, newConfig)]
    /\ Commit(World)
    /\ UNCHANGED <<pixel, hybrid, hcall>>

\* gtm[k].trackPageView()
GTMTrackPageView(k) ==
    /\ gtm[k].exists
    /\ Len(dataLayer.events) < MaxDataLayer
    /\ Commit(pushEvent(World, "page_view"))
    /\ UNCHANGED <<pixel, gtm, hybrid, hcall>>

\* HybridTracker constructor: the defaults under the caller's config
HybridConstructorConfig(c) ==
    Spread([debug |-> FALSE, enableClientTracking |-> TRUE,
            enableServerTracking |-> TRUE], c)

\* the config HybridTracker hands to its MetaPixelTracker (lines 318-322
\* and 618-622)
HybridPixelConfig(c) ==
    Spread(Spread(Renamed(c, {<<"pixelId", "pixelId">>}),
                  [debug |-> TruthyBool(c, "debug")]),
           Prop(TruthyStr(c, "testEventCode"), "testEventCode",
                c.testEventCode))

\* new HybridTracker(c) in a browser: NoTracker when it throws
newHybridTracker(c, w) ==
    LET cfg == HybridConstructorConfig(c)
        r == newMetaPixelTracker(HybridPixelConfig(cfg), w)
    IN  IF ~TruthyBool(cfg, "enableClientTracking")
        THEN [t |-> [exists |-> TRUE, config |-> cfg,
                     pixelTracker |-> NoTracker],
              w |-> w]
        ELSE IF r.w.error # "none" THEN [t |-> NoTracker, w |-> r.w]
        ELSE [t |-> [exists |-> TRUE, config |-> cfg, pixelTracker |-> r.t],
              w |-> r.w]

\* HybridTracker.updateConfig
hybridUpdateConfig(h, w, newConfig) ==
    LET cfg == Spread(h.config, newConfig)
        r == pixelUpdateConfig(h.pixelTracker, w, HybridPixelConfig(cfg))
    IN  IF /\ h.pixelTracker.exists
           /\ \/ "pixelId" \in DOMAIN newConfig /\ newConfig.pixelId # <<>>
              \/ TruthyBool(newConfig, "debug")
              \/ TruthyStr(newConfig, "testEventCode")
        THEN [t |-> [h EXCEPT !.config = cfg, !.pixelTracker = r.t], w |-> r.w]
        ELSE [t |-> [h EXCEPT !.config = cfg], w |-> w]

\* an entry of products in the server event
ServerProduct(p, quantity) ==
    Spread([id |-> p.id, name |-> p.name, price |-> p.price,
            quantity |-> quantity],
           Renamed(p, {<<"category", "category">>, <<"brand", "brand">>}))

\* the track methods of HybridTracker (index.ts 399-595): the server event
\* each hands to trackHybrid
HybridEvent(method, data, now, random) ==
    CASE method = "trackPageView" ->
            [eventName |-> "PageView",
             eventId |-> generateEventIdFor("pv", now, random),
             eventData |-> EmptyObj]
      [] method \in {"trackProductView", "trackAddToWishlist"} ->
            [eventName |-> IF method = "trackProductView" THEN "ViewContent"
                           ELSE "AddToWishlist",
             eventId |-> generateEventIdFor(
                             IF method = "trackProductView" THEN "pv"
                             ELSE "atw", now, random),
             products |-> <<ServerProduct(data, 1)>>,
             value |-> data.price,
             currency |-> Or(data, "currency", "USD")]
      [] method = "trackAddToCart" ->
            [eventName |-> "AddToCart",
             eventId |-> generateEventIdFor("atc", now, random),
             products |-> <<ServerProduct(data, QuantityOf(data))>>,
             value |-> data.price * QuantityOf(data),
             currency |-> Or(data, "currency", "USD")]
      [] method \in {"trackInitiateCheckout", "trackPurchase"} ->
            Spread([eventName |-> IF method = "trackPurchase" THEN "Purchase"
                                  ELSE "InitiateCheckout",
                    eventId |-> IdOr(data, IF method = "trackPurchase"
                                           THEN "purchase" ELSE "ic",
                                     now, random),
                    products |->
                        [k \in 1..Len(data.products) |->
                            ServerProduct(data.products[k],
                                          QuantityOf(data.products[k]))],
                    value |-> data.value, currency |-> data.currency],
                   Renamed(data, {<<"customData", "customData">>}
                                 \cup IF method = "trackPurchase"
                                      THEN {<<"orderId", "orderId">>}
                                      ELSE {}))
      [] method = "trackSearch" ->
            Spread([eventName |-> "Search",
                    eventId |-> IdOr(data, "search", now, random),
                    searchTerm |-> data.searchTerm],
                   Renamed(data, {<<"customData", "customData">>}))
      [] method = "trackRegistration" ->
            Spread([eventName |-> "CompleteRegistration",
                    eventId |-> IdOr(data, "reg", now, random)],
                   Renamed(data, {<<"method", "method">>,
                                  <<"status", "status">>,
                                  <<"customData", "customData">>}))
      [] method = "trackLead" ->
            Spread([eventName |-> "Lead",
                    eventId |-> generateEventIdFor("lead", now, random),
                    currency |-> Or(data, "currency", "USD"),
                    customData |-> data],
                   Renamed(data, {<<"value", "value">>}))
      [] method = "trackCustomEvent" ->
            [eventName |-> data.eventName,
             eventId |-> IdOr(data, "custom", now, random),
             customData |-> data.parameters]

\* the clientTrackingFn of each track method: the pixel method of the same
\* name on the same argument, except that trackCustomEvent calls trackEvent
\* with the id it chose
ClientCall(method, data, eventId) ==
    IF method = "trackCustomEvent"
    THEN [method |-> "trackEvent",
          data |-> [eventName |-> data.eventName,
                    parameters |-> data.parameters, eventId |-> eventId]]
    ELSE [method |-> method, data |-> data]

PageUrl == "https://shop.example/cart"

\* HybridTracker.sendToServer up to its await: the requests it issues
sendToServer(cfg, eventData, now) ==
    IF ~TruthyBool(cfg, "enableServerTracking")
       \/ ~TruthyStr(cfg, "serverEndpoint")
    THEN <<>>
    ELSE <<[url |-> cfg.serverEndpoint, method |-> "POST", keepalive |-> TRUE,
            body |-> Spread(eventData, [sourceUrl |-> PageUrl,
                                        timestamp |-> [iso |-> now]])]>>

\* a trackHybrid whose client call is not guarded: its failure ends the call
ServerPartSkippedOnClientFailure(clientFailed, requests) ==
    IF clientFailed THEN [requests |-> <<>>, state |-> "rejected"]
    ELSE [requests |-> requests,
          state |-> IF requests = <<>> THEN "resolved" ELSE "fetching"]

\* trackHybrid, lines 371-386: the client call sits in its own try/catch,
\* so the server part runs whatever became of it; the call then awaits the
\* requests it issued
ServerPart(clientFailed, requests) ==
    [requests |-> requests,
     state |-> IF requests = <<>> THEN "resolved" ELSE "fetching"]

\* HybridTracker.trackHybrid up to its await, called by a track method;
\* rs and rp are the random parts of the ids the two channels generate
trackHybrid(h, w, method, data, now, rs, rp, fbqThrows) ==
    LET server == HybridEvent(method, data, now, rs)
        c == ClientCall(method, data, server.eventId)
        client == /\ TruthyBool(h.config, "enableClientTracking")
                  /\ h.pixelTracker.exists
                  /\ pixelIsReady(h.pixelTracker, w.fbq)
        r == IF client
             THEN pixelTrack(h.pixelTracker, w, c.method, c.data, now, rp,
                             fbqThrows)
             ELSE [t |-> h.pixelTracker, w |-> w]
        failed == r.w.caught \/ r.w.error # "none"
        requests == IF TruthyBool(h.config, "enableServerTracking")
                    THEN sendToServer(h.config, server, now) ELSE <<>>
    IN  [t |-> [h EXCEPT !.pixelTracker = r.t],
         w |-> [r.w EXCEPT !.error = "none"],
         call |-> Spread([kind |-> "track", method |-> method, data |-> data,
                          flags |-> [client |-> TruthyBool(h.config,
                                                   "enableClientTracking"),
                                     server |-> TruthyBool(h.config,
                                                   "enableServerTracking"),
                                     endpoint |-> TruthyStr(h.config,
                                                   "serverEndpoint")],
                          pixelEvents |->
                              SelectSeq(r.w.calls,
                                        LAMBDA x : x.method = "track"),
                          clientFailed |-> failed, server |-> "none"],
                         ServerPart(failed, requests))]

\* the track calls the page makes on the HybridTracker
HybridCalls ==
  LET Product == [id |-> "p1", name |-> "Shoe", price |-> 10]
      ProductTwo == [id |-> "p2", name |-> "Sock", price |-> 3, quantity |-> 2,
                     currency |-> "EUR", category |-> "wear"]
      Checkout == [value |-> 16, currency |-> "EUR",
                   products |-> <<Product, ProductTwo>>]
  IN
    {[method |-> "trackPageView", data |-> EmptyObj],
     [method |-> "trackProductView", data |-> Product],
     [method |-> "trackAddToCart", data |-> ProductTwo],
     [method |-> "trackInitiateCheckout", data |-> Checkout],
     [method |-> "trackInitiateCheckout",
      data |-> Spread(Checkout, [eventId |-> "e1"])],
     [method |-> "trackPurchase",
      data |-> Spread(Checkout, [orderId |-> "o1"])],
     [method |-> "trackPurchase",
      data |-> Spread(Checkout, [orderId |-> "o1", eventId |-> "e2",
                                 customData |-> [coupon |-> "c1"]])],
     [method |-> "trackSearch", data |-> [searchTerm |-> "shoes"]],
     [method |-> "trackSearch",
      data |-> [searchTerm |-> "shoes", eventId |-> "e3"]],
     [method |-> "trackRegistration", data |-> EmptyObj],
     [method |-> "trackRegistration",
      data |-> [method |-> "email", eventId |-> "e4"]],
     [method |-> "trackAddToWishlist", data |-> Product],
     [method |-> "trackLead", data |-> [value |-> 5]],
     [method |-> "trackCustomEvent",
      data |-> [eventName |-> "Custom", parameters |-> [step |-> 1]]],
     [method |-> "trackCustomEvent",
      data |-> [eventName |-> "Custom", parameters |-> [step |-> 1],
                eventId |-> "e5"]]}

\* hybrid = new HybridTracker(c)
ConstructHybrid(c) ==
    /\ ~hybrid.exists
    /\ LET r == newHybridTracker(c, World)
       IN  hybrid' = r.t /\ Commit(r.w)
    /\ UNCHANGED <<pixel, gtm, hcall>>

\* hybrid.updateConfig(newConfig)
HybridUpdateConfig(newConfig) ==
    /\ hybrid.exists
    /\ LET r == hybridUpdateConfig(hybrid, World, newConfig)
       IN  hybrid' = r.t /\ Commit(r.w)
    /\ UNCHANGED <<pixel, gtm, hcall>>

\* hybrid.setClientTrackingEnabled(enabled)
SetClientTrackingEnabled(enabled) ==
    /\ hybrid.exists
    /\ hybrid' = [hybrid EXCEPT
                     !.config = Spread(@, [enableClientTracking |-> enabled])]
    /\ Commit(World)
    /\ UNCHANGED <<pixel, gtm, hcall>>

\* hybrid.setServerTrackingEnabled(enabled)
SetServerTrackingEnabled(enabled) ==
    /\ hybrid.exists
    /\ hybrid' = [hybrid EXCEPT
                     !.config = Spread(@, [enableServerTracking |-> enabled])]
    /\ Commit(World)
    /\ UNCHANGED <<pixel, gtm, hcall>>

\* a track method of hybrid, up to its await
HybridTrack(c, rs, rp, fbqThrows) ==
    /\ hybrid.exists
    /\ hcall = NoCall
    /\ LET r == trackHybrid(hybrid, World, c.method, c.data, Now, rs, rp,
                            fbqThrows)
       IN  hybrid' = r.t /\ hcall' = r.call /\ Commit(r.w)
    /\ UNCHANGED <<pixel, gtm>>

\* sendToServer and trackHybrid after the await: a response, ok or not, and
\* a rejection of fetch (caught at line 354) all resolve the call
HybridServerSettles(outcome) ==
    /\ hcall.kind = "track"
    /\ hcall.state = "fetching"
    /\ hcall' = [hcall EXCEPT !.state = "resolved", !.server = outcome]
    /\ UNCHANGED <<dom, docBody, fbq, dataLayer, pixel, gtm, hybrid,
                   fbqCalls, thrown, serverVars>>

\* the caller has awaited the call
HybridReturn ==
    /\ hcall.kind = "track"
    /\ hcall.state # "fetching"
    /\ hcall' = NoCall
    /\ UNCHANGED <<dom, docBody, fbq, dataLayer, pixel, gtm, hybrid,
                   fbqCalls, thrown, serverVars>>

\* trackers of all three classes on one page
NextBrowser ==
    \/ BodyParsed
    \/ \E k \in 1..MaxTrackers,
          c \in {[pixelId |-> PixelA], [pixelId |-> PixelA, autoInit |-> FALSE],
                 [pixelId |-> Rep("1", 5)]} : ConstructPixel(k, c)
    \/ \E k \in 1..MaxTrackers : PixelInit(k)
    \/ \E k \in 1..MaxTrackers,
          newConfig \in {[pixelId |-> PixelB], [autoInit |-> FALSE]} :
           PixelUpdateConfig(k, newConfig)
    \/ \E k \in 1..MaxTrackers, c \in PixelCalls, random \in Randoms,
          fbqThrows \in BOOLEAN : PixelTrack(k, c, random, fbqThrows)
    \/ \E k \in 1..MaxTrackers,
          c \in {[gtmId |-> ""], [gtmId |-> "GTM-ABC123"],
                 [gtmId |-> "GTM-ABC123", autoTrackPageViews |-> FALSE]} :
           ConstructGTM(k, c)
    \/ \E k \in 1..MaxTrackers : GTMInit(k)
    \/ \E k \in 1..MaxTrackers, newConfig \in {[debug |-> TRUE]} :
           GTMUpdateConfig(k, newConfig)
    \/ \E k \in 1..MaxTrackers : GTMTrackPageView(k)
    \/ \E c \in {[pixelId |-> PixelA]} : ConstructHybrid(c)
    \/ \E newConfig \in {[debug |-> TRUE]} : HybridUpdateConfig(newConfig)

SpecBrowser == InitBrowser /\ [][NextBrowser]_vars

\* one HybridTracker and its calls
NextHybrid ==
    \/ \E a \in Optional("serverEndpoint", {"/api/track"}),
          b \in Optional("enableClientTracking", {FALSE}),
          c \in Optional("enableServerTracking", {FALSE}) :
           ConstructHybrid(Spread(Spread(Spread([pixelId |-> PixelA], a), b), c))
    \/ \E newConfig \in {[pixelId |-> PixelB], [debug |-> TRUE],
                          [enableClientTracking |-> TRUE],
                          [enableServerTracking |-> TRUE],
                          [serverEndpoint |-> "/api/v2/track"]} :
           HybridUpdateConfig(newConfig)
    \/ \E enabled \in BOOLEAN : SetClientTrackingEnabled(enabled)
    \/ \E enabled \in BOOLEAN : SetServerTrackingEnabled(enabled)
    \/ \E c \in HybridCalls, rs \in Randoms, rp \in Randoms,
          fbqThrows \in BOOLEAN : HybridTrack(c, rs, rp, fbqThrows)
    \/ \E outcome \in {"ok", "notOk", "rejects"} : HybridServerSettles(outcome)
    \/ HybridReturn

SpecHybrid == InitBrowser /\ [][NextHybrid]_vars

(***************************************************************************)
(* Properties                                                              *)
(***************************************************************************)
\* the action sources the data model enumerates
EnumeratedActionSources ==
    {"website", "email", "app", "phone_call", "chat", "physical_store",
     "system_generated", "business_messaging", "other"}

\* an event that fails validation as the specification defines it: name
\* missing or empty, actionSource present and not enumerated, eventTime
\* present and out of bounds
FailsValidation(eventData, now) ==
    \/ "eventName" \notin DOMAIN eventData
    \/ eventData.eventName = ""
    \/ /\ "actionSource" \in DOMAIN eventData
       /\ eventData.actionSource \notin EnumeratedActionSources
    \/ /\ "eventTime" \in DOMAIN eventData
       /\ \/ eventData.eventTime < MinEventTime
          \/ eventData.eventTime > now + MaxFutureSeconds

CallFailsValidation ==
    /\ call.kind \in {"single", "batch"}
    /\ \/ call.kind = "batch" /\ Len(call.input) = 0
       \/ call.kind = "batch" /\ Len(call.input) > MaxBatchSize
       \/ \E k \in 1..Len(call.input) : FailsValidation(call.input[k], call.now)

IsValidationError(r) ==
    /\ "ok" \in DOMAIN r
    /\ ~r.ok
    /\ "code" \in DOMAIN r.error
    /\ r.error.code = "VALIDATION_ERROR"

\* C1: a sendEvent/sendBatchEvents call whose input fails validation (empty
\* or missing name, actionSource outside the enumerated set, eventTime out
\* of bounds, empty batch, batch over 1000, batch with an invalid event)
\* rejects with VALIDATION_ERROR and issues no network request: fn is never
\* invoked.
C1_InvalidInputNeverSent ==
    CallFailsValidation =>
        /\ Len(log) = 0
        /\ attempts = 0
        /\ pc = "done"
        /\ IsValidationError(result)

\* C2: when fn fails on every invocation, retry invokes it exactly
\* maxAttempts times, never more, and rejects with the last error unchanged;
\* with retryAttempts = 3 a call whose attempts all fail makes 3 attempts.
C2_ExactlyMaxAttempts ==
    /\ attempts <= retryAttempts
    /\ (pc = "done" /\ attempts > 0 /\ ~result.ok) =>
          /\ attempts = retryAttempts
          /\ result.error = lastError
          /\ result = fnLast

\* C3 as stated: the wait before zero-indexed attempt k >= 1 is
\* baseDelay * 2^k plus a jitter in [0, 1000).  In state "backoff" the wait
\* just computed precedes attempt i + 1.
C3_DelayBeforeAttemptK ==
    pc = "backoff" =>
        (backoffDelay.wait - retryDelay * 2^(i + 1)) \in 0..999

\* C3 amended: the wait before zero-indexed attempt k >= 1 is
\* baseDelay * 2^(k-1) plus a jitter in [0, 1000): baseDelay before attempt
\* 1, 2 * baseDelay before attempt 2, 4 * baseDelay before attempt 3.
C3_DelayBeforeAttemptKAmended ==
    pc = "backoff" =>
        LET k == i + 1
        IN  /\ k >= 1
            /\ (backoffDelay.wait - retryDelay * 2^(k - 1)) \in 0..999
            /\ backoffDelay.wait - backoffDelay.jitter
                 = CASE k = 1 -> retryDelay
                     [] k = 2 -> 2 * retryDelay
                     [] k = 3 -> 4 * retryDelay
                     [] OTHER -> 0

C3_Witness == pc = "backoff" /\ i = 2 /\ backoffDelay.jitter = 999

\* fn failed on its first f invocations and succeeded on invocation f + 1
FailedThenSucceeded(f) ==
    /\ Len(fnOutcomes) > f
    /\ \A k \in 1..f : ~fnOutcomes[k]
    /\ fnOutcomes[f + 1]

\* C4: for every f < maxAttempts, if fn fails f times and then succeeds,
\* retry resolves with exactly that success value after exactly f + 1
\* invocations, and no invocation follows the success.
C4_SucceedsAfterFailures ==
    \A f \in 0..(retryAttempts - 1) :
        FailedThenSucceeded(f) =>
            /\ pc = "done"
            /\ result.ok
            /\ result = fnLast
            /\ attempts = f + 1
            /\ Len(fnOutcomes) = f + 1

C4_Witness ==
    /\ FailedThenSucceeded(2)
    /\ pc = "done"
    /\ attempts = 3
    /\ result.value.eventsReceived = 1

\* the last attempt was answered 2xx with a body that is not JSON
ParseFailure ==
    /\ "body" \in DOMAIN lastReply
    /\ IsOk(lastReply.status)
    /\ ~lastReply.body.valid

\* C5: a parse failure is not retried: after a 2xx reply whose body is not
\* valid JSON the call rejects after that attempt and no further request
\* is issued.
C5_ParseFailureNotRetried ==
    ParseFailure => pc = "done" /\ ~result.ok

\* C6: each invocation of makeRequest issues exactly one outbound network
\* request, in every environment and for every outcome, a failed fetch
\* included.
C6_OneRequestPerAttempt == Len(log) = attempts

\* C7: a configuration update does not affect a call in flight: every
\* attempt uses the endpoint URL, access token and test event code current
\* when the call started.
C7_InFlightCallKeepsConfig ==
    \A k \in 1..Len(log) :
        /\ log[k].url = started.baseUrl
        /\ log[k].body = RequestBody(started.config, serverEvents, env)

\* C8: every attempt of one call transmits the same list of wire events:
\* all events of the input, in input order, each with the event_id and
\* event_time of the first attempt.
C8_SamePayloadEveryAttempt ==
    /\ \A k \in 2..Len(log) : log[k].body.data = log[1].body.data
    /\ Len(log) >= 1 =>
          LET data == log[1].body.data
          IN  /\ Len(data) = Len(call.input)
              /\ \A j \in 1..Len(data) :
                    /\ data[j].event_name = call.input[j].eventName
                    /\ IF TruthyStr(call.input[j], "eventId")
                       THEN data[j].event_id = GivenId(call.input[j].eventId)
                       ELSE data[j].event_id.prefix = "event"
                    /\ IF TruthyNum(call.input[j], "eventTime")
                       THEN data[j].event_time = call.input[j].eventTime
                       ELSE data[j].event_time = call.now

C8_Witness ==
    /\ call.kind = "batch"
    /\ Len(call.input) = 2
    /\ call.input[1] # call.input[2]
    /\ Len(log) >= 3
    /\ pc = "done"

\* one application of the hash to a normalised plaintext, as a JSON string
HashedOnce(plain) ==
    {[json |-> "string", text |-> Digest(alg, Text(plain))] :
        alg \in {"sha256", "simple"}}

\* C9: for every event with an email (phone), the user_data.em (ph) of the
\* transmitted body is the digest string of the lower-cased, trimmed email
\* (digits-only phone): the hash applied once, present as a string.
C9_PiiHashedOnce ==
    \A k \in 1..Len(log) : \A j \in 1..Len(call.input) :
        LET eventData == call.input[j]
            userData == IF "userData" \in DOMAIN eventData
                        THEN eventData.userData ELSE EmptyObj
            sent == log[k].body.data[j].user_data
        IN  /\ Truthy(userData, "email") =>
                  /\ "em" \in DOMAIN sent
                  /\ sent.em \in HashedOnce(trim(toLowerCase(userData.email.s)))
            /\ Truthy(userData, "phone") =>
                  /\ "ph" \in DOMAIN sent
                  /\ sent.ph \in HashedOnce(stripNonDigits(userData.phone.s))

OpaqueFields ==
    {<<"fbp", "fbp">>, <<"fbc", "fbc">>,
     <<"clientIpAddress", "client_ip_address">>,
     <<"clientUserAgent", "client_user_agent">>,
     <<"externalId", "external_id">>}

\* C10: fbp, fbc, clientIpAddress, clientUserAgent and externalId appear in
\* the transmitted user_data exactly as supplied, and no email, phone, name
\* or geo field appears in plaintext.
C10_OpaquePassThrough ==
    \A k \in 1..Len(log) : \A j \in 1..Len(call.input) :
        LET eventData == call.input[j]
            userData == IF "userData" \in DOMAIN eventData
                        THEN eventData.userData ELSE EmptyObj
            sent == log[k].body.data[j].user_data
        IN  /\ \A m \in OpaqueFields :
                  Truthy(userData, m[1]) =>
                      /\ m[2] \in DOMAIN sent
                      /\ sent[m[2]] = [json |-> "string", text |-> userData[m[1]]]
            /\ \A w \in DOMAIN sent \cap
                        {"em", "ph", "fn", "ln", "ct", "st", "country", "zp"} :
                  ~(sent[w].json = "string" /\ sent[w].text.hs = <<>>)

\* the event of a sendEvent call
SingleEvent == call.input[1]

NameGiven(eventData) ==
    "eventName" \in DOMAIN eventData /\ eventData.eventName # ""

TimeInBounds(t, now) == t >= MinEventTime /\ t <= now + MaxFutureSeconds

\* C11: validation accepts an event whose actionSource is absent or one of
\* the nine enumerated values (app and business_messaging included) and
\* rejects with VALIDATION_ERROR every event whose actionSource is present
\* and outside that set.
C11_ActionSourceValidated ==
    (/\ call.kind = "single"
     /\ NameGiven(SingleEvent)
     /\ "eventTime" \notin DOMAIN SingleEvent) =>
        IF \/ "actionSource" \notin DOMAIN SingleEvent
           \/ SingleEvent.actionSource \in EnumeratedActionSources
        THEN ~IsValidationError(result)
        ELSE pc = "done" /\ IsValidationError(result)

\* C12: validation rejects with VALIDATION_ERROR every eventTime that is
\* present and outside [1000000000, now + 3600], 0 and negative values
\* included, and accepts every eventTime inside the bounds, the current
\* time included.
C12_EventTimeValidated ==
    (/\ call.kind = "single"
     /\ NameGiven(SingleEvent)
     /\ "actionSource" \notin DOMAIN SingleEvent
     /\ "eventTime" \in DOMAIN SingleEvent) =>
        IF TimeInBounds(SingleEvent.eventTime, call.now)
        THEN ~IsValidationError(result)
        ELSE pc = "done" /\ IsValidationError(result)

WireEventInvariant(ev, now) ==
    /\ ev.event_name # ""
    /\ TimeInBounds(ev.event_time, now)
    /\ ev.action_source \in EnumeratedActionSources

\* C13: every wire event handed to the transport has a non-empty
\* event_name, an event_time within [1000000000, now + 3600] and an
\* action_source of the enumerated set, also when the input omitted
\* eventTime, eventId or actionSource (defaults: now, a generated id,
\* "website").
C13_WireEventsWellFormed ==
    /\ \A j \in 1..Len(serverEvents) :
          /\ WireEventInvariant(serverEvents[j], call.now)
          /\ "eventTime" \notin DOMAIN call.input[j] =>
                serverEvents[j].event_time = call.now
          /\ "actionSource" \notin DOMAIN call.input[j] =>
                serverEvents[j].action_source = "website"
          /\ "eventId" \notin DOMAIN call.input[j] =>
                serverEvents[j].event_id.prefix = "event"
    /\ Len(log) >= 1 =>
          LET data == log[Len(log)].body.data
          IN  /\ Len(data) = Len(serverEvents)
              /\ \A j \in 1..Len(data) :
                    WireEventInvariant(data[j], call.now)

C13_Witness ==
    /\ call.kind = "single"
    /\ DOMAIN SingleEvent \cap {"eventTime", "eventId", "actionSource"} = {}
    /\ Len(log) >= 1
    /\ pc = "done"
    /\ result.ok

KindOf(err) == IF "code" \in DOMAIN err THEN err.code ELSE "none"

\* whether text is one of the parts of message
Mentions(message, text) == \E k \in 1..Len(message) : message[k] = text

\* the last attempt was answered with a non-2xx response
HttpFailure == "body" \in DOMAIN lastReply /\ ~IsOk(lastReply.status)

\* the last attempt ended without any response
ConnectivityFailure == fnLast # NoResult /\ lastReply = NoReply

\* the error object of the remote reply, if its body has one
RemoteError(reply) ==
    IF reply.body.valid /\ "error" \in DOMAIN reply.body.json
    THEN reply.body.json.error ELSE EmptyObj

\* C14: on a non-2xx response the attempt rejects with an error of kind
\* API_ERROR that carries the HTTP status, the remote error message and
\* the remote fbtrace_id of that response; a connectivity failure rejects
\* with the distinct kind NETWORK_ERROR.
C14_ApiErrorCarriesReply ==
    /\ HttpFailure =>
          /\ ~fnLast.ok
          /\ KindOf(fnLast.error) = "API_ERROR"
          /\ \/ "status" \in DOMAIN fnLast.error
                   /\ fnLast.error.status = lastReply.status
             \/ Mentions(fnLast.error.message, ToString(lastReply.status))
          /\ "message" \in DOMAIN RemoteError(lastReply) =>
                Mentions(fnLast.error.message, RemoteError(lastReply).message)
          /\ "fbtrace_id" \in DOMAIN RemoteError(lastReply) =>
                /\ "fbtrace_id" \in DOMAIN fnLast.error
                /\ fnLast.error.fbtrace_id = RemoteError(lastReply).fbtrace_id
    /\ ConnectivityFailure =>
          /\ ~fnLast.ok
          /\ KindOf(fnLast.error) = "NETWORK_ERROR"

\* two outcomes the caller cannot tell apart
SameOutcome(a, b) ==
    /\ a.ok = b.ok
    /\ a.ok => a.value = b.value
    /\ ~a.ok => /\ KindOf(a.error) = KindOf(b.error)
                /\ a.error.message = b.error.message

\* C15: for the same remote reply the fetch path and the https fallback
\* deliver the same outcome: the same resolved value on a 2xx JSON reply,
\* a rejection with the same error code and message otherwise.
C15_PathsInterchangeable ==
    "body" \in DOMAIN lastReply =>
        /\ SameOutcome(fnLast, FnResult(FetchResult(lastReply)))
        /\ SameOutcome(fnLast, FnResult(HttpsResult(lastReply)))

\* x or fallback, for a number
NumOr(r, k, fallback) == IF k \in DOMAIN r /\ r[k] # 0 THEN r[k] ELSE fallback

\* C16: for every parsed body of a 2xx reply (the empty object, a body
\* missing fields, any other JSON value) transformResponse returns without
\* throwing: eventsReceived and its alias events_received are
\* events_received or 0, messages is messages or the empty list,
\* numProcessedEntries is num_processed_entries or 0.
C16_ResponseMapperTotal ==
    (/\ "body" \in DOMAIN lastReply
     /\ IsOk(lastReply.status)
     /\ lastReply.body.valid) =>
        LET raw == lastReply.body.json
        IN  /\ fnLast.ok
            /\ fnLast.value.eventsReceived = NumOr(raw, "events_received", 0)
            /\ fnLast.value.events_received = fnLast.value.eventsReceived
            /\ fnLast.value.messages =
                   (IF "messages" \in DOMAIN raw THEN raw.messages ELSE <<>>)
            /\ fnLast.value.numProcessedEntries =
                   NumOr(raw, "num_processed_entries", 0)

\* the customData of the j-th event of the call
InputCustomData(j) ==
    IF "customData" \in DOMAIN call.input[j] THEN call.input[j].customData
    ELSE EmptyObj

\* item is preserved as wire
ItemPreserved(item, wire) ==
    /\ wire.id = item.id
    /\ "quantity" \in DOMAIN item =>
          "quantity" \in DOMAIN wire /\ wire.quantity = item.quantity
    /\ "itemPrice" \in DOMAIN item =>
          "item_price" \in DOMAIN wire /\ wire.item_price = item.itemPrice
    /\ \A f \in {"title", "category", "brand"} :
          (f \in DOMAIN item /\ item[f] # "") =>
              f \in DOMAIN wire /\ wire[f] = item[f]

\* C17: the wire contents list has the length and order of
\* customData.contents, and every item keeps its id, the quantity and the
\* itemPrice (as item_price) the caller supplied, and its title, category
\* and brand when given.
C17_ContentsPreserved ==
    \A j \in 1..Len(serverEvents) :
        "contents" \in DOMAIN InputCustomData(j) =>
            LET items == InputCustomData(j).contents
                wire == serverEvents[j].custom_data
            IN  /\ "contents" \in DOMAIN wire
                /\ Len(wire.contents) = Len(items)
                /\ \A m \in 1..Len(items) :
                      ItemPreserved(items[m], wire.contents[m])

\* the reserved wire keys
ReservedWireKeys ==
    {"value", "currency", "content_name", "content_category", "content_ids",
     "content_type", "order_id", "search_string", "num_items", "status",
     "delivery_category", "contents"}

\* wire keys written from a typed field when it is given, <<wire, typed>>
TypedWireFields ==
    {<<"value", "value">>, <<"currency", "currency">>,
     <<"content_name", "contentName">>,
     <<"content_category", "contentCategory">>,
     <<"content_ids", "contentIds">>, <<"content_type", "contentType">>,
     <<"order_id", "orderId">>, <<"search_string", "searchString">>,
     <<"num_items", "numItems">>, <<"status", "status">>,
     <<"delivery_category", "deliveryCategory">>}

\* C18: merging customProperties into custom_data drops every key equal to
\* a reserved wire key, without error, and copies every other key with its
\* value: a reserved wire field is present only when its typed field is
\* given and carries the typed field's value.
C18_ReservedKeysFromTypedFields ==
    \A j \in 1..Len(serverEvents) :
        LET customData == InputCustomData(j)
            props == IF "customProperties" \in DOMAIN customData
                     THEN customData.customProperties ELSE EmptyObj
            wire == serverEvents[j].custom_data
        IN  /\ \A k \in DOMAIN props \ ReservedWireKeys :
                  k \in DOMAIN wire /\ wire[k] = props[k]
            /\ \A f \in TypedWireFields :
                  f[1] \in DOMAIN wire =>
                      /\ f[2] \in DOMAIN customData
                      /\ wire[f[1]] = customData[f[2]]
            /\ "contents" \in DOMAIN wire =>
                  /\ "contents" \in DOMAIN customData
                  /\ Len(wire.contents) = Len(customData.contents)
                  /\ \A m \in 1..Len(wire.contents) :
                        wire.contents[m].id = customData.contents[m].id

C18_Witness ==
    /\ call.kind = "single"
    /\ "value" \notin DOMAIN InputCustomData(1)
    /\ "customProperties" \in DOMAIN InputCustomData(1)
    /\ "value" \in DOMAIN InputCustomData(1).customProperties
    /\ serverEvents[1].custom_data.campaign = "spring"
    /\ Len(log) >= 1
    /\ pc = "done"
    /\ result.ok

\* the tracker class and the argument of the constructor call
Constructed(class) ==
    /\ call.kind = "construct"
    /\ call.class = class
    /\ pc \in {"idle", "thrown"}

\* a string of exactly 15 or 16 decimal digits
PixelIdWellFormed(c) ==
    /\ "pixelId" \in DOMAIN c
    /\ IsString(c.pixelId)
    /\ Len(c.pixelId) \in {15, 16}
    /\ \A k \in 1..Len(c.pixelId) : c.pixelId[k] \in Digits

ThrewConfigError ==
    /\ pc = "thrown"
    /\ ~cfgError.ok
    /\ KindOf(cfgError.error) = "CONFIG_ERROR"

\* C19: with a valid pixelId, new MetaConversionTracker succeeds if and
\* only if accessToken is a string of at least 50 characters: a missing,
\* empty or shorter token throws CONFIG_ERROR, a token of exactly 50
\* characters is accepted.
C19_AccessTokenRequired ==
    (Constructed("MetaConversionTracker") /\ PixelIdWellFormed(call.input)) =>
        IF "accessToken" \in DOMAIN call.input
           /\ Len(call.input.accessToken) >= 50
        THEN pc = "idle"
        ELSE ThrewConfigError

\* the rest of the configuration is valid
RestOfConfigValid ==
    \/ call.class = "MetaPixelTracker"
    \/ /\ "accessToken" \in DOMAIN call.input
       /\ Len(call.input.accessToken) > 50

\* C20: the constructors of MetaPixelTracker and MetaConversionTracker
\* throw CONFIG_ERROR if and only if pixelId is not a string of exactly 15
\* or 16 decimal digits, and never return a tracker whose pixelId fails
\* that check.
C20_PixelIdChecked ==
    (call.kind = "construct" /\ pc \in {"idle", "thrown"}) =>
        /\ RestOfConfigValid =>
              (ThrewConfigError <=> ~PixelIdWellFormed(call.input))
        /\ pc = "idle" => PixelIdWellFormed(call.input)

\* a MetaConversionTracker the constructor returned
ConversionTrackerExists ==
    /\ call.kind = "construct"
    /\ call.class = "MetaConversionTracker"
    /\ pc = "idle"

\* C25: after the constructor and any sequence of updateConfig calls, the
\* ones that throw CONFIG_ERROR included, the stored configuration passes
\* validateConfig: an update that throws leaves config and baseUrl as they
\* were.
C25_StoredConfigValid ==
    ConversionTrackerExists => validateConfig(config) = <<>>

\* C26: after the constructor and after every updateConfig that returns
\* normally, whatever partial config was passed (apiVersion or pixelId
\* empty or undefined included), baseUrl is
\* https://graph.facebook.com/{apiVersion}/{pixelId}/events of the stored
\* config.
C26_BaseUrlMatchesConfig ==
    (ConversionTrackerExists /\ cfgError.ok) =>
        /\ baseUrl.host = "https://graph.facebook.com"
        /\ baseUrl.path = "events"
        /\ baseUrl.apiVersion = (IF "apiVersion" \in DOMAIN config
                                 THEN config.apiVersion ELSE "undefined")
        /\ baseUrl.pixelId = (IF "pixelId" \in DOMAIN config
                              THEN config.pixelId ELSE Undefined)

\* the stored config with its secrets replaced by other non-empty values
SecretVariants(c) ==
    {Spread(c, Spread(Prop("accessToken" \in DOMAIN c, "accessToken", t),
                      Prop("appSecret" \in DOMAIN c, "appSecret", a))) :
        t \in {TokenA, TokenB}, a \in {"s1", "s2", "s3"}}

HasSecrets(c) ==
    /\ "accessToken" \in DOMAIN c /\ c.accessToken # <<>>
    /\ TruthyStr(c, "appSecret")

\* C30: the result of getConfig has no accessToken and no appSecret, only
\* the booleans hasAccessToken and hasAppSecret, and is the same for two
\* trackers whose configurations differ only in the non-empty values of
\* accessToken and appSecret.
C30_GetConfigHidesSecrets ==
    ConversionTrackerExists =>
        LET public == getConfig(config)
        IN  /\ DOMAIN public =
                  (DOMAIN config \ {"accessToken", "appSecret"})
                      \cup {"hasAccessToken", "hasAppSecret"}
            /\ public.hasAccessToken \in BOOLEAN
            /\ public.hasAppSecret \in BOOLEAN
            /\ \A k \in DOMAIN config \ {"accessToken", "appSecret"} :
                  public[k] = config[k]
            /\ HasSecrets(config) =>
                  \A other \in SecretVariants(config) :
                      getConfig(other) = public

C30_Witness ==
    /\ ConversionTrackerExists
    /\ HasSecrets(config)
    /\ config.accessToken = TokenB
    /\ updates >= 1

\* a call has entered retry and has not settled
InFlight == pc \in {"attempt", "fetch", "https", "backoff"}

\* the call resolved with an EventResponse or rejected with an error
Settled == pc = "done" /\ "ok" \in DOMAIN result

\* every call in flight eventually settles
EventuallySettles == InFlight ~> Settled

\* C27: if every request settles and every backoff timer fires, every
\* sendEvent/sendBatchEvents call eventually settles, and the number of
\* transport attempts of one call never exceeds the retry limit fixed at
\* construction.
C27_SettlesWithinRetryLimit ==
    /\ EventuallySettles
    /\ [](attempts <= retryAttempts)

C22_ScriptInjectionIdempotent ==
    [][/\ \A id \in ElementIds : dom'[id] <= 1
       /\ \A k \in 1..MaxTrackers :
            /\ (pixel[k].exists /\ pixel[k].isInitialized /\ PixelInit(k))
                   => (dom' = dom /\ thrown' = "none")
            /\ (gtm[k].exists /\ gtm[k].isInitialized /\ GTMInit(k))
                   => (dom' = dom /\ thrown' = "none")]_vars

C22_Witness ==
    /\ \A id \in ElementIds : dom[id] = 1
    /\ \A k \in 1..MaxTrackers :
        /\ pixel[k].exists /\ pixel[k].isInitialized
        /\ gtm[k].exists /\ gtm[k].isInitialized
    /\ hybrid.exists /\ hybrid.pixelTracker.exists

\* the MetaPixelTracker instances of the page, the one of the HybridTracker
\* included
PixelTrackers ==
    {pixel[k] : k \in {x \in 1..MaxTrackers : pixel[x].exists}}
    \cup (IF hybrid.exists /\ hybrid.pixelTracker.exists
          THEN {hybrid.pixelTracker} ELSE {})

\* C23: where window.fbq is a function, isReady() is true exactly when an
\* init has completed since construction or since the last updateConfig: a
\* tracker built with autoInit false is not ready until init or a track call
\* has run, and is ready from then on.
C23_ReadyIffInitialised ==
    fbq = "function" =>
        \A t \in PixelTrackers : pixelIsReady(t, fbq) <=> t.initSince

C23_Witness ==
    /\ fbq = "function"
    /\ \E k \in 1..MaxTrackers :
        /\ pixel[k].exists
        /\ ~TruthyBool(pixel[k].config, "autoInit")
        /\ pixelIsReady(pixel[k], fbq)
    /\ \E a, b \in 1..Len(fbqCalls) :
        fbqCalls[a].method = "init" /\ fbqCalls[b].method = "track"

\* a track call of the HybridTracker that reached both channels
TrackedOnBothChannels ==
    hcall.kind = "track" /\ hcall.pixelEvents # <<>> /\ hcall.requests # <<>>

\* C21: for every HybridTracker track method and every call that tracks on
\* both channels, the pixel event carries an eventID and it equals the
\* eventId posted to the server endpoint, whether or not the caller supplied
\* an eventId.
C21_ChannelsShareEventId ==
    TrackedOnBothChannels =>
        /\ "eventID" \in DOMAIN hcall.pixelEvents[1].eventData
        /\ hcall.pixelEvents[1].eventData.eventID
               = hcall.requests[1].body.eventId

C29_FlagsDecideChannels ==
    hcall.kind = "track" =>
        /\ (hcall.pixelEvents # <<>> \/ hcall.clientFailed)
               <=> hcall.flags.client
        /\ hcall.flags.endpoint =>
               (hcall.requests # <<>> <=> hcall.flags.server)

====
